---- MODULE Spec2Model ----
(***************************************************************************)
(* Gargantua: frame synchronization and GPU resource lifecycle.            *)
(*                                                                         *)
(* The host thread of main() runs the frame loop; the window system        *)
(* changes the framebuffer size and queues events asynchronously; the GPU  *)
(* executes the operations of the submitted batches asynchronously, in any *)
(* order the recorded barriers, the semaphores and their stage masks       *)
(* allow.                                                                  *)
(***************************************************************************)
EXTENDS Integers, Sequences, FiniteSets, TLC

\* ------------------------------------------------------------------ bounds
MaxDim     == 2    \* framebuffer sizes are 0x0 (minimized) and w x 1, w in 1..MaxDim
MaxResizes == 1    \* window-system size changes in one run
MaxFrames  == 2    \* iterations of the frame loop in one run
ImageCount == 2    \* images of the presentable chain
LoopFrames == 4    \* iterations of the frame loop in a run of the steady loop
LoopImages == 4    \* images of the presentable chain in a run of the steady loop

\* ------------------------------------------------------- program constants
MAX_FRAMES == 3    \* main.cpp: const size_t MAX_FRAMES = 3

\* VK_NULL_HANDLE passed for a semaphore argument (semaphores are named by slot 0..2)
NoSem == -1

Sizes        == { <<0, 0>> } \cup { <<w, 1>> : w \in 1..MaxDim }
NonZeroSizes == { s \in Sizes : s[1] # 0 /\ s[2] # 0 }
InitialSize  == <<1, 1>>

Slots == 0..(MAX_FRAMES - 1)

\* descriptorPool == VK_NULL_HANDLE, no pool made
NoPool == [handle |-> FALSE, releases |-> 0]

\* vkCreateDescriptorPool succeeding: the handle names a new pool
vkCreateDescriptorPool == [handle |-> TRUE, releases |-> 0]

\* ComputePipeline::recreate releasing the pool without nulling the handle
recreate_destroyDescriptorPool_keep(pool) ==
    IF pool.handle THEN [pool EXCEPT !.releases = @ + 1] ELSE pool

\* ComputePipeline::recreate: if (descriptorPool) { vkDestroyDescriptorPool;
\* descriptorPool = VK_NULL_HANDLE; }
recreate_destroyDescriptorPool(pool) ==
    IF pool.handle THEN [handle |-> FALSE, releases |-> pool.releases + 1] ELSE pool

\* ~ComputePipeline: if (descriptorPool) vkDestroyDescriptorPool (the handle
\* is left as it is)
ComputePipeline_destroyDescriptorPool(pool) ==
    IF pool.handle THEN [pool EXCEPT !.releases = @ + 1] ELSE pool

\* The three Vulkan objects of the storage image
Handles == {"view", "image", "memory"}

VARIABLES
    \* ---- window system (core/window.h and the platform)
    fb,                 \* live framebuffer size, changed by the window system
    pendingResize,      \* a framebuffer-size event is queued, not yet delivered
    pendingOther,       \* some other window event is queued
    framebufferResized, \* Window::framebufferResized
    resizes,            \* size changes so far (bounded by MaxResizes)
    \* ---- device context / platform facts fixed at start-up
    sharedQueue,        \* computeQueueFamily = graphicsQueueFamily (one VkQueue)
    capsDefined,        \* the surface reports a defined currentExtent
    minImageCount,      \* capabilities.minImageCount of the surface
    \* ---- Swapchain
    chainLive,          \* swapchain # VK_NULL_HANDLE
    swapchainExtent,    \* Swapchain::swapchainExtent
    swapchainImages,    \* Swapchain::swapchainImages: how many, and of which chain
    swapchainImageViews, \* Swapchain::swapchainImageViews: size of the vector
    swapLayout,         \* layout of the image acquired for the current frame
    \* ---- ComputePipeline
    storageHandles,     \* storageView / storageImage / storageMemory # VK_NULL_HANDLE
    storageExtent,      \* extent the storage image was created with
    storageLayout,      \* layout of the storage image on the GPU
    createPending,      \* createStorageImage's transition is submitted, not executed
    descriptorSetView,  \* the view descriptorSet was written with: "current" | "stale"
    \* ---- semaphores
    imageAvailable,     \* imageAvailableSems[i]: "unsignaled" | "pending" | "signaled"
    renderFinished,     \* renderFinishedSems[i]
    computeFinished,    \* computeFinished_ is signaled
    presentQueue,       \* presentation requests whose semaphore wait has not executed yet
    \* ---- GPU queues
    submitted,          \* batches of the current dispatch handed to the queues
    done,               \* GPU operations of the current dispatch that have executed
    lateToSrc,          \* storageToSrc transitions of earlier dispatches still pending
    waitSem,            \* waitSemaphore argument of the current dispatch (slot or NoSem)
    signalSem,          \* signalSemaphore argument of the current dispatch
    dstImage,           \* imageIndex argument of the current dispatch
    \* ---- host thread
    pc,                 \* position of the host thread
    rcRet,              \* caller of the running Swapchain::recreate
    szRead,             \* (w, h) read by glfwGetFramebufferSize in recreate
    currentFrame,       \* main: currentFrame
    imageIndex,         \* main: imageIndex
    frames,             \* completed loop iterations
    res,                \* VkResult of the last acquire/present call
    errorSite,          \* where the exception that ended the run was thrown
    exitStatus,         \* value returned by main, once it has returned
    message,            \* main's catch block has printed e.what()
    \* ---- objects whose lifetime the frame loop does not touch
    frameSemsLive,      \* imageAvailableSems / renderFinishedSems exist
    computeFinishedLive, \* computeFinished_ and the pipeline objects of the constructor exist
    descriptorPool,     \* the descriptorPool handle, and the releases of the pool it names
    cmdCompute,         \* commands recorded in the compute command buffer
    \* ---- one call of a function that touches no object state
    callee,             \* the function called, "none" in main's run
    args,               \* its arguments
    result,             \* the value it returned
    returned,           \* the call has returned
    \* ---- bookkeeping of calls (observations, not program state)
    acqFirst,           \* result of the first vkAcquireNextImageKHR of the running call
    acqAttempts,        \* vkAcquireNextImageKHR calls made by the running acquireNextImage
    acqRecreates,       \* recreate() calls made by the running acquireNextImage
    presRecreates,      \* recreate() calls made by the running present
    sigCount,           \* signal operations executed on computeFinished_
    waitCount,          \* wait operations executed on computeFinished_
    dispatches,         \* dispatch calls that returned
    doubleSignal,       \* computeFinished_ was signaled while already signaled
    released,           \* handles released since one was last created, in order
    destroyCalls        \* destroyStorageImage calls since a handle was last created

winVars  == <<fb, pendingResize, pendingOther, framebufferResized, resizes>>
ctxVars  == <<sharedQueue, capsDefined, minImageCount>>
scVars   == <<chainLive, swapchainExtent, swapchainImages, swapchainImageViews, swapLayout>>
cpVars   == <<storageHandles, storageExtent, storageLayout, createPending,
              descriptorSetView, released, destroyCalls>>
semVars  == <<imageAvailable, renderFinished, computeFinished, presentQueue>>
gpuVars  == <<submitted, done, lateToSrc, waitSem, signalSem, dstImage>>
hostVars == <<pc, rcRet, szRead, currentFrame, imageIndex, frames, res, errorSite>>
obsVars  == <<acqFirst, acqAttempts, acqRecreates, presRecreates, sigCount,
              waitCount, dispatches, doubleSignal>>
callObs  == <<acqFirst, acqAttempts, acqRecreates, presRecreates>>
gpuObs   == <<sigCount, waitCount, dispatches, doubleSignal>>

exitVars == <<exitStatus, message>>
ownVars  == <<frameSemsLive, computeFinishedLive>>
fnVars   == <<callee, args, result, returned>>

vars == <<winVars, ctxVars, scVars, cpVars, semVars, gpuVars, hostVars, obsVars,
          exitVars, ownVars, descriptorPool, cmdCompute, fnVars>>


\* --------------------------------------------------------------- helpers
VkResults == {"SUCCESS", "SUBOPTIMAL", "OUT_OF_DATE", "ERROR"}

\* std::numeric_limits<uint32_t>::max(), the width of an undefined
\* currentExtent: the all-ones pattern, written -1 to stay within TLC's integers
UINT32_MAX == -1
UndefinedExtent == <<UINT32_MAX, UINT32_MAX>>

\* VkSurfaceCapabilitiesKHR::minImageExtent / maxImageExtent of the platform
minImageExtent == <<1, 1>>
maxImageExtent == <<MaxDim, 1>>

\* A clamp that applies the lower limit only
clamp_noUpper(v, lo, hi) == IF v < lo THEN lo ELSE v

\* std::clamp
clamp(v, lo, hi) == IF v < lo THEN lo ELSE IF hi < v THEN hi ELSE v

\* VkSurfaceCapabilitiesKHR::currentExtent as the platform reports it now
currentExtent == IF capsDefined THEN fb ELSE UndefinedExtent

\* createSwapchain: the VkSurfaceCapabilitiesKHR the platform reports now
capabilities ==
    [currentExtent |-> currentExtent,
     minImageExtent |-> minImageExtent,
     maxImageExtent |-> maxImageExtent]

\* Swapchain::chooseSwapExtent(caps), framebuffer being what
\* glfwGetFramebufferSize returns
chooseSwapExtent(caps, framebuffer) ==
    IF caps.currentExtent[1] # UINT32_MAX
    THEN caps.currentExtent
    ELSE << clamp(framebuffer[1], caps.minImageExtent[1], caps.maxImageExtent[1]),
            clamp(framebuffer[2], caps.minImageExtent[2], caps.maxImageExtent[2]) >>

\* ------------------------------------------------------------ window system
\* The window system resizes the framebuffer and queues the event.
OsResize ==
    /\ resizes < MaxResizes
    /\ pc \notin {"construct", "done", "failed", "catch", "exited"}
    /\ \E s \in Sizes \ {fb} : fb' = s
    /\ pendingResize' = TRUE
    /\ resizes' = resizes + 1
    /\ UNCHANGED <<pendingOther, framebufferResized>>
    /\ UNCHANGED <<ctxVars, scVars, cpVars, semVars, gpuVars, hostVars, obsVars>>
    /\ UNCHANGED <<exitVars, cmdCompute, fnVars, ownVars, descriptorPool>>

\* Any other window event (key, mouse, focus) is queued.  Such an event has an
\* effect on the program only while the host is blocked in glfwWaitEvents.
OsInput ==
    /\ ~pendingOther
    /\ pc = "rc_wait"
    /\ pendingOther' = TRUE
    /\ UNCHANGED <<fb, pendingResize, framebufferResized, resizes>>
    /\ UNCHANGED <<ctxVars, scVars, cpVars, semVars, gpuVars, hostVars, obsVars>>
    /\ UNCHANGED <<exitVars, cmdCompute, fnVars, ownVars, descriptorPool>>

\* Window::framebufferResizeCallback, run for a queued size event while the
\* host is inside glfwPollEvents or glfwWaitEvents.
framebufferResizeCallback ==
    /\ framebufferResized' = (framebufferResized \/ pendingResize)
    /\ pendingResize' = FALSE
    /\ pendingOther' = FALSE


\* ------------------------------------------------- recorded synchronization
\* Pipeline stages in which the recorded commands execute.
Stages == {"COMPUTE_SHADER", "BLIT"}

\* The stages of this program's commands that a stage mask names.
StagesOf(mask) ==
    CASE mask = "NONE"           -> {}
      [] mask = "COMPUTE_SHADER" -> {"COMPUTE_SHADER"}
      [] mask = "BLIT"           -> {"BLIT"}
      [] mask = "TRANSFER"       -> {"BLIT"}
      [] mask = "ALL_COMMANDS"   -> {"COMPUTE_SHADER", "BLIT"}

\* dispatch: the image barriers it records
storageToSrc == [srcStageMask |-> "COMPUTE_SHADER", dstStageMask |-> "TRANSFER",
                 oldLayout |-> "GENERAL", newLayout |-> "TRANSFER_SRC"]
presentToDst == [srcStageMask |-> "NONE", dstStageMask |-> "BLIT",
                 oldLayout |-> "UNDEFINED", newLayout |-> "TRANSFER_DST"]
dstToPresent == [srcStageMask |-> "BLIT", dstStageMask |-> "NONE",
                 oldLayout |-> "TRANSFER_DST", newLayout |-> "PRESENT_SRC"]
storageBack  == [srcStageMask |-> "BLIT", dstStageMask |-> "COMPUTE_SHADER",
                 oldLayout |-> "TRANSFER_SRC", newLayout |-> "GENERAL"]

\* signalRenderDone with the blit stage only as its stage mask
signalRenderDoneStage_blit == "BLIT"

\* dispatch: the stage masks of its semaphore operations
waitAcquireStage       == "COMPUTE_SHADER"
signalComputeDoneStage == "COMPUTE_SHADER"
waitComputeDoneStage   == "BLIT"
signalRenderDoneStage  == "ALL_COMMANDS"

\* A semaphore wait with stage mask m holds back the commands of stage st.
WaitGatesStage(m, st) == st \in StagesOf(m)
\* ... and holds back the layout transition of barrier b only when b's first
\* scope chains with the wait's second scope.
WaitGatesBarrier(m, b) ==
    m = "ALL_COMMANDS" \/ StagesOf(b.srcStageMask) \cap StagesOf(m) # {}
\* A semaphore signal with stage mask m follows the commands of stage st.
SignalCoversStage(m, st) == st \in StagesOf(m)
\* ... and follows the layout transition of barrier b only when b's second
\* scope chains with the signal's first scope.
SignalCoversBarrier(m, b) ==
    m = "ALL_COMMANDS" \/ StagesOf(b.dstStageMask) \cap StagesOf(m) # {}
\* Barrier b makes its transition follow earlier commands of stage st,
\* and makes later commands of stage st follow its transition.
BarrierAfter(b, st)  == st \in StagesOf(b.srcStageMask)
BarrierBefore(b, st) == st \in StagesOf(b.dstStageMask)

\* submitGfx without its wait on computeFinished_
submitGfxWaits_mut == {}

\* dispatch: the semaphores the graphics submission waits on
submitGfxWaits == {"computeFinished_"}

\* submitCompute without a semaphore to signal
submitComputeSignals_none == {}

\* dispatch: the semaphores the compute submission signals
\* (signalSemaphoreInfoCount = 1, pSignalSemaphoreInfos = &signalComputeDone)
submitComputeSignals == {"computeFinished_"}

\* dispatch: the semaphores the compute submission waits on
\* (if (waitSemaphore != VK_NULL_HANDLE) waitSemaphoreInfoCount = 1)
submitComputeWaits(waitSemaphore) ==
    IF waitSemaphore # NoSem THEN {waitSemaphore} ELSE {}

\* submitGfx signalling nothing whatever it is given
submitGfxSignals_none(signalSemaphore) == {}

\* dispatch: the semaphores the graphics submission signals
\* (signalSemaphoreInfoCount = (signalSemaphore != VK_NULL_HANDLE) ? 1u : 0u)
submitGfxSignals(signalSemaphore) ==
    IF signalSemaphore # NoSem THEN {signalSemaphore} ELSE {}

\* GPU operations of the two batches of one dispatch
ComputeOps ==
    {"computeWrite", "storageToSrc"}
        \cup (IF "computeFinished_" \in submitComputeSignals
              THEN {"signalComputeDone"} ELSE {})
        \cup (IF submitComputeWaits(waitSem) # {} THEN {"waitAcquire"} ELSE {})
GraphicsOps ==
    {"presentToDst", "blit", "barriersEnd"}
        \cup (IF "computeFinished_" \in submitGfxWaits THEN {"waitComputeDone"} ELSE {})
        \cup (IF submitGfxSignals(signalSem) # {} THEN {"signalRenderDone"} ELSE {})

Has(op) == op \in done
ComputeComplete  == "compute" \in submitted => ComputeOps \subseteq done
GraphicsComplete == "graphics" \in submitted => GraphicsOps \subseteq done

\* vkQueueWaitIdle(graphics queue), vkQueueWaitIdle(compute queue), vkDeviceWaitIdle
GraphicsQueueIdle ==
    GraphicsComplete /\ (sharedQueue => (ComputeComplete /\ lateToSrc = 0))
ComputeQueueIdle ==
    ComputeComplete /\ lateToSrc = 0 /\ (sharedQueue => GraphicsComplete)
DeviceIdle == GraphicsComplete /\ ComputeComplete /\ lateToSrc = 0


\* ------------------------------------------------------------- GPU execution
\* The presentation engine signals the semaphore handed to a successful
\* vkAcquireNextImageKHR once the image may be used.
engine_signalImageAvailable ==
    /\ \E i \in Slots :
         /\ imageAvailable[i] = "pending"
         /\ imageAvailable' = [imageAvailable EXCEPT ![i] = "signaled"]
    /\ UNCHANGED <<renderFinished, computeFinished, presentQueue>>
    /\ UNCHANGED <<winVars, ctxVars, scVars, cpVars, gpuVars, hostVars, obsVars>>
    /\ UNCHANGED <<exitVars, cmdCompute, fnVars, ownVars, descriptorPool>>

\* The presentation engine takes up the oldest presentation request: its
\* semaphore wait executes (unsignaling the semaphore) and its image is
\* released once shown. No fence or idle wait of the host covers this.
engine_presentWait ==
    /\ presentQueue # <<>>
    /\ renderFinished' = [renderFinished EXCEPT ![Head(presentQueue).slot] = "unsignaled"]
    /\ presentQueue' = Tail(presentQueue)
    /\ UNCHANGED <<imageAvailable, computeFinished>>
    /\ UNCHANGED <<winVars, ctxVars, scVars, cpVars, gpuVars, hostVars, obsVars>>
    /\ UNCHANGED <<exitVars, cmdCompute, fnVars, ownVars, descriptorPool>>

\* compute batch: wait on waitSemaphore (waitAcquire)
gpu_waitAcquire ==
    /\ "compute" \in submitted /\ "waitAcquire" \in ComputeOps
    /\ ~Has("waitAcquire")
    /\ imageAvailable[waitSem] = "signaled"
    /\ imageAvailable' = [imageAvailable EXCEPT ![waitSem] = "unsignaled"]
    /\ done' = done \cup {"waitAcquire"}
    /\ UNCHANGED <<renderFinished, computeFinished, presentQueue, submitted, lateToSrc, waitSem, signalSem, dstImage>>
    /\ UNCHANGED <<winVars, ctxVars, scVars, cpVars, hostVars, obsVars>>
    /\ UNCHANGED <<exitVars, cmdCompute, fnVars, ownVars, descriptorPool>>

\* compute batch: vkCmdDispatch, the compute shader writes the storage image
gpu_computeWrite ==
    /\ "compute" \in submitted /\ ~Has("computeWrite")
    /\ (waitSem # NoSem /\ WaitGatesStage(waitAcquireStage, "COMPUTE_SHADER"))
         => Has("waitAcquire")
    /\ done' = done \cup {"computeWrite"}
    /\ UNCHANGED <<submitted, lateToSrc, waitSem, signalSem, dstImage>>
    /\ UNCHANGED <<winVars, ctxVars, scVars, cpVars, semVars, hostVars, obsVars>>
    /\ UNCHANGED <<exitVars, cmdCompute, fnVars, ownVars, descriptorPool>>

\* compute batch: layout transition of the storageToSrc barrier
gpu_storageToSrc ==
    /\ "compute" \in submitted /\ ~Has("storageToSrc")
    /\ lateToSrc = 0
    /\ BarrierAfter(storageToSrc, "COMPUTE_SHADER") => Has("computeWrite")
    /\ (waitSem # NoSem /\ WaitGatesBarrier(waitAcquireStage, storageToSrc))
         => Has("waitAcquire")
    /\ storageLayout' = storageToSrc.newLayout
    /\ done' = done \cup {"storageToSrc"}
    /\ UNCHANGED <<storageHandles, storageExtent, createPending, descriptorSetView, released, destroyCalls, submitted, lateToSrc, waitSem, signalSem, dstImage>>
    /\ UNCHANGED <<winVars, ctxVars, scVars, semVars, hostVars, obsVars>>
    /\ UNCHANGED <<exitVars, cmdCompute, fnVars, ownVars, descriptorPool>>

\* compute queue: a storageToSrc transition of an earlier dispatch, still pending
gpu_lateStorageToSrc ==
    /\ lateToSrc > 0
    /\ lateToSrc' = lateToSrc - 1
    /\ storageLayout' = storageToSrc.newLayout
    /\ UNCHANGED <<storageHandles, storageExtent, createPending, descriptorSetView, released, destroyCalls, submitted, done, waitSem, signalSem, dstImage>>
    /\ UNCHANGED <<winVars, ctxVars, scVars, semVars, hostVars, obsVars>>
    /\ UNCHANGED <<exitVars, cmdCompute, fnVars, ownVars, descriptorPool>>

\* compute batch: signal computeFinished_ (signalComputeDone)
gpu_signalComputeDone ==
    /\ "compute" \in submitted /\ "signalComputeDone" \in ComputeOps
    /\ ~Has("signalComputeDone")
    /\ SignalCoversStage(signalComputeDoneStage, "COMPUTE_SHADER") => Has("computeWrite")
    /\ SignalCoversBarrier(signalComputeDoneStage, storageToSrc)
         => (Has("storageToSrc") /\ lateToSrc = 0)
    /\ computeFinished' = TRUE
    /\ doubleSignal' = (doubleSignal \/ computeFinished)
    /\ sigCount' = sigCount + 1
    /\ done' = done \cup {"signalComputeDone"}
    /\ UNCHANGED <<imageAvailable, renderFinished, presentQueue, submitted, lateToSrc, waitSem, signalSem, dstImage>>
    /\ UNCHANGED <<callObs, waitCount, dispatches>>
    /\ UNCHANGED <<winVars, ctxVars, scVars, cpVars, hostVars>>
    /\ UNCHANGED <<exitVars, cmdCompute, fnVars, ownVars, descriptorPool>>

\* graphics batch: wait on computeFinished_ (waitComputeDone)
gpu_waitComputeDone ==
    /\ "graphics" \in submitted /\ "waitComputeDone" \in GraphicsOps
    /\ ~Has("waitComputeDone")
    /\ computeFinished
    /\ computeFinished' = FALSE
    /\ waitCount' = waitCount + 1
    /\ done' = done \cup {"waitComputeDone"}
    /\ UNCHANGED <<imageAvailable, renderFinished, presentQueue, submitted, lateToSrc, waitSem, signalSem, dstImage>>
    /\ UNCHANGED <<callObs, sigCount, dispatches, doubleSignal>>
    /\ UNCHANGED <<winVars, ctxVars, scVars, cpVars, hostVars>>
    /\ UNCHANGED <<exitVars, cmdCompute, fnVars, ownVars, descriptorPool>>

\* graphics batch: layout transition of the presentToDst barrier
gpu_presentToDst ==
    /\ "graphics" \in submitted /\ ~Has("presentToDst")
    /\ ("waitComputeDone" \in GraphicsOps
          /\ WaitGatesBarrier(waitComputeDoneStage, presentToDst))
         => Has("waitComputeDone")
    /\ swapLayout' = presentToDst.newLayout
    /\ done' = done \cup {"presentToDst"}
    /\ UNCHANGED <<chainLive, swapchainExtent, swapchainImages, swapchainImageViews, submitted, lateToSrc, waitSem, signalSem, dstImage>>
    /\ UNCHANGED <<winVars, ctxVars, cpVars, semVars, hostVars, obsVars>>
    /\ UNCHANGED <<exitVars, cmdCompute, fnVars, ownVars, descriptorPool>>

\* graphics batch: vkCmdBlitImage, reads the storage image, writes the chain image
gpu_blit ==
    /\ "graphics" \in submitted /\ ~Has("blit")
    /\ ("waitComputeDone" \in GraphicsOps
          /\ WaitGatesStage(waitComputeDoneStage, "BLIT"))
         => Has("waitComputeDone")
    /\ BarrierBefore(presentToDst, "BLIT") => Has("presentToDst")
    /\ (sharedQueue /\ BarrierBefore(storageToSrc, "BLIT"))
         => (Has("storageToSrc") /\ lateToSrc = 0)
    /\ done' = done \cup {"blit"}
    /\ UNCHANGED <<submitted, lateToSrc, waitSem, signalSem, dstImage>>
    /\ UNCHANGED <<winVars, ctxVars, scVars, cpVars, semVars, hostVars, obsVars>>
    /\ UNCHANGED <<exitVars, cmdCompute, fnVars, ownVars, descriptorPool>>

\* graphics batch: layout transitions of barriersEnd = {dstToPresent, storageBack}
gpu_barriersEnd ==
    /\ "graphics" \in submitted /\ ~Has("barriersEnd")
    /\ BarrierAfter(dstToPresent, "BLIT") => Has("blit")
    /\ BarrierAfter(storageBack, "BLIT") => Has("blit")
    /\ Has("presentToDst")
    /\ sharedQueue => (Has("storageToSrc") /\ lateToSrc = 0)
    /\ swapLayout' = dstToPresent.newLayout
    /\ storageLayout' = storageBack.newLayout
    /\ done' = done \cup {"barriersEnd"}
    /\ UNCHANGED <<chainLive, swapchainExtent, swapchainImages, swapchainImageViews, storageHandles, storageExtent,
                   createPending, descriptorSetView, released, destroyCalls>>
    /\ UNCHANGED <<submitted, lateToSrc, waitSem, signalSem, dstImage>>
    /\ UNCHANGED <<winVars, ctxVars, semVars, hostVars, obsVars>>
    /\ UNCHANGED <<exitVars, cmdCompute, fnVars, ownVars, descriptorPool>>

\* graphics batch: signal signalSemaphore (signalRenderDone)
gpu_signalRenderDone ==
    /\ "graphics" \in submitted /\ "signalRenderDone" \in GraphicsOps
    /\ ~Has("signalRenderDone")
    /\ SignalCoversStage(signalRenderDoneStage, "BLIT") => Has("blit")
    /\ SignalCoversBarrier(signalRenderDoneStage, presentToDst) => Has("presentToDst")
    /\ SignalCoversBarrier(signalRenderDoneStage, dstToPresent) => Has("barriersEnd")
    /\ renderFinished' = [renderFinished EXCEPT ![signalSem] = "signaled"]
    /\ done' = done \cup {"signalRenderDone"}
    /\ UNCHANGED <<imageAvailable, computeFinished, presentQueue, submitted, lateToSrc, waitSem, signalSem, dstImage>>
    /\ UNCHANGED <<winVars, ctxVars, scVars, cpVars, hostVars, obsVars>>
    /\ UNCHANGED <<exitVars, cmdCompute, fnVars, ownVars, descriptorPool>>


\* ------------------------------------------------------------------ Swapchain
\* Swapchain::recreate, first half of the do-while body: glfwGetFramebufferSize
recreate_getFramebufferSize ==
    /\ pc = "rc_size"
    /\ szRead' = fb
    /\ pc' = "rc_wait"
    /\ UNCHANGED <<rcRet, currentFrame, imageIndex, frames, res, errorSite>>
    /\ UNCHANGED <<winVars, ctxVars, scVars, cpVars, semVars, gpuVars, obsVars>>
    /\ UNCHANGED <<exitVars, cmdCompute, fnVars, ownVars, descriptorPool>>

\* Swapchain::recreate, second half: glfwWaitEvents (blocks until an event is
\* queued, then runs the callbacks), then the loop test on the size read before
recreate_waitEvents ==
    /\ pc = "rc_wait"
    /\ pendingResize \/ pendingOther
    /\ framebufferResizeCallback
    /\ pc' = IF szRead[1] = 0 \/ szRead[2] = 0 THEN "rc_size" ELSE "rc_build"
    /\ UNCHANGED <<fb, resizes>>
    /\ UNCHANGED <<rcRet, szRead, currentFrame, imageIndex, frames, res, errorSite>>
    /\ UNCHANGED <<ctxVars, scVars, cpVars, semVars, gpuVars, obsVars>>
    /\ UNCHANGED <<exitVars, cmdCompute, fnVars, ownVars, descriptorPool>>

\* Where Swapchain::recreate returns to
recreate_return ==
    CASE rcRet = "resize"  -> "rz_compute"
      [] rcRet = "acquire" -> "acq_retry"
      [] rcRet = "present" -> "next"

\* Swapchain::recreate without its vkDeviceWaitIdle
recreate_noWait == TRUE

\* Swapchain::recreate: what its vkDeviceWaitIdle returns on
recreate_deviceIdle == DeviceIdle

\* Swapchain::recreate, after the loop: vkDeviceWaitIdle
recreate_vkDeviceWaitIdle ==
    /\ pc = "rc_build"
    /\ recreate_deviceIdle
    /\ pc' = "rc_cleanup"
    /\ UNCHANGED <<rcRet, szRead, currentFrame, imageIndex, frames, res, errorSite>>
    /\ UNCHANGED <<winVars, ctxVars, scVars, cpVars, semVars, gpuVars, obsVars>>
    /\ UNCHANGED <<exitVars, cmdCompute, fnVars, ownVars, descriptorPool>>

\* createSwapchain: imageCount = capabilities.minImageCount + 1 (the surface
\* sets no maximum); the chain is created with that many images
createSwapchain_imageCount == minImageCount + 1

\* No image of the current chain
NoImage == NoSem

\* Swapchain::cleanup: destroys the views and clears their vector, destroys
\* the chain and nulls the handle; swapchainImages is left as it is
cleanup ==
    /\ swapchainImageViews' = 0
    /\ chainLive' = FALSE
    /\ swapchainImages' = [swapchainImages EXCEPT !.chain = "destroyed"]
    /\ presentQueue' = [i \in DOMAIN presentQueue |->
                           [presentQueue[i] EXCEPT !.image = NoImage]]

\* A recreation that destroys the per-slot signals and computeFinished_
recreate_signals_destroyed == <<FALSE, FALSE>>

\* What Swapchain::recreate and ComputePipeline::recreate leave of the per-slot
\* signals and of computeFinished_: neither body names them
recreate_signals == ownVars

\* Swapchain::recreate: cleanup()
recreate_cleanup ==
    /\ pc = "rc_cleanup"
    /\ cleanup
    /\ pc' = "rc_create"
    /\ UNCHANGED <<swapchainExtent, swapLayout>>
    /\ UNCHANGED <<rcRet, szRead, currentFrame, imageIndex, frames, res, errorSite>>
    /\ UNCHANGED <<winVars, ctxVars, cpVars, imageAvailable, renderFinished, computeFinished, gpuVars, obsVars>>
    /\ frameSemsLive' = recreate_signals[1] /\ computeFinishedLive' = recreate_signals[2]
    /\ UNCHANGED descriptorPool
    /\ UNCHANGED <<exitVars, cmdCompute, fnVars>>

\* Swapchain::recreate: createSwapchain, createImageViews, return
recreate_rebuild ==
    /\ pc = "rc_create"
    /\ chainLive' = TRUE
    /\ swapchainExtent' = chooseSwapExtent(capabilities, fb)
    /\ swapchainImages' = [count |-> createSwapchain_imageCount, chain |-> "live"]
    /\ swapchainImageViews' = createSwapchain_imageCount
    /\ swapLayout' = "UNDEFINED"
    /\ pc' = recreate_return
    /\ rcRet' = "none"
    /\ szRead' = <<0, 0>>
    /\ UNCHANGED <<currentFrame, imageIndex, frames, res, errorSite>>
    /\ UNCHANGED <<winVars, ctxVars, cpVars, semVars, gpuVars, obsVars>>
    /\ UNCHANGED <<exitVars, cmdCompute, fnVars, ownVars, descriptorPool>>

\* ... with createSwapchain throwing before it has a new chain (nothing
\* assigned since cleanup), or createImageViews throwing after it has resized
\* its vector to the new image count
recreate_rebuildFails ==
    /\ pc = "rc_create"
    /\ \/ UNCHANGED <<chainLive, swapchainExtent, swapchainImages, swapchainImageViews>>
       \/ /\ chainLive' = TRUE
          /\ swapchainExtent' = chooseSwapExtent(capabilities, fb)
          /\ swapchainImages' = [count |-> createSwapchain_imageCount, chain |-> "live"]
          /\ swapchainImageViews' = createSwapchain_imageCount
    /\ pc' = "failed"
    /\ errorSite' = "createSwapchain"
    /\ UNCHANGED swapLayout
    /\ UNCHANGED <<rcRet, szRead, currentFrame, imageIndex, frames, res>>
    /\ UNCHANGED <<winVars, ctxVars, cpVars, semVars, gpuVars, obsVars>>
    /\ UNCHANGED <<exitVars, cmdCompute, fnVars, ownVars, descriptorPool>>

\* The Swapchain object has been constructed and not been destroyed yet
SwapchainExists ==
    /\ pc \notin {"construct", "catch", "exited", "done"}
    /\ errorSite \notin {"Window", "VulkanContext", "Swapchain"}

\* The host thread is inside Swapchain::recreate
InRecreate == pc \in {"rc_size", "rc_wait", "rc_build", "rc_cleanup", "rc_create"}

\* acquireNextImage without the out-of-date branch
acquireIsStale_mut(r) == FALSE

\* acquireNextImage: the result that makes it recreate and retry
acquireIsStale(r) == r = "OUT_OF_DATE"

\* acquireNextImage letting a second out-of-date through
acquireOk_mut(r) == r # "ERROR"

\* acquireNextImage throwing on a suboptimal acquisition
acquireOk_successOnly(r) == r = "SUCCESS"

\* acquireNextImage: the results it returns on (anything else throws)
acquireOk(r) == r \in {"SUCCESS", "SUBOPTIMAL"}

\* The images of the chain the presentation engine does not hold: those with
\* no presentation request outstanding
FreeImages ==
    (0 .. (swapchainImages.count - 1)) \ {presentQueue[i].image : i \in DOMAIN presentQueue}

\* What a vkAcquireNextImageKHR that hands out an image does
acquired ==
    /\ imageIndex' \in FreeImages
    /\ imageAvailable' = [imageAvailable EXCEPT ![currentFrame] = "pending"]
    /\ swapLayout' = "UNDEFINED"

\* Swapchain::acquireNextImage up to its first vkAcquireNextImageKHR and the
\* branch on its result
acquireNextImage ==
    /\ pc = "acquire"
    /\ \E r \in VkResults :
         /\ res' = r
         /\ acqFirst' = r
         /\ acqAttempts' = 1
         /\ acqRecreates' = IF acquireIsStale(r) THEN 1 ELSE 0
         /\ IF acquireIsStale(r)
            THEN /\ pc' = "rc_size"
                 /\ rcRet' = "acquire"
                 /\ UNCHANGED <<imageIndex, imageAvailable, swapLayout, errorSite>>
            ELSE IF acquireOk(r)
            THEN /\ acquired
                 /\ pc' = "dispatch"
                 /\ UNCHANGED <<rcRet, errorSite>>
            ELSE /\ pc' = "failed"
                 /\ errorSite' = "acquire"
                 /\ UNCHANGED <<rcRet, imageIndex, imageAvailable, swapLayout>>
    /\ UNCHANGED <<chainLive, swapchainExtent, swapchainImages, swapchainImageViews, renderFinished, computeFinished, presentQueue>>
    /\ UNCHANGED <<szRead, currentFrame, frames, presRecreates, gpuObs>>
    /\ UNCHANGED <<winVars, ctxVars, cpVars, gpuVars>>
    /\ UNCHANGED <<exitVars, cmdCompute, fnVars, ownVars, descriptorPool>>

\* Swapchain::acquireNextImage after recreate(): the second
\* vkAcquireNextImageKHR and the final test
acquireNextImage_retry ==
    /\ pc = "acq_retry"
    /\ \E r \in VkResults :
         /\ res' = r
         /\ acqAttempts' = acqAttempts + 1
         /\ IF acquireOk(r)
            THEN /\ acquired
                 /\ pc' = "dispatch"
                 /\ UNCHANGED errorSite
            ELSE /\ pc' = "failed"
                 /\ errorSite' = "acquire"
                 /\ UNCHANGED <<imageIndex, imageAvailable, swapLayout>>
    /\ UNCHANGED <<chainLive, swapchainExtent, swapchainImages, swapchainImageViews, renderFinished, computeFinished, presentQueue>>
    /\ UNCHANGED <<rcRet, szRead, currentFrame, frames>>
    /\ UNCHANGED <<acqFirst, acqRecreates, presRecreates, gpuObs>>
    /\ UNCHANGED <<winVars, ctxVars, cpVars, gpuVars>>
    /\ UNCHANGED <<exitVars, cmdCompute, fnVars, ownVars, descriptorPool>>

\* present recreating on out-of-date only
presentIsStale_mut(r) == r = "OUT_OF_DATE"

\* present: the results on which it recreates and returns
presentIsStale(r) == r \in {"OUT_OF_DATE", "SUBOPTIMAL"}

\* Swapchain::present: vkQueuePresentKHR waiting on waitSemaphore, and the
\* branch on its result
present ==
    /\ pc = "present"
    /\ \E r \in VkResults :
         /\ res' = r
         /\ presentQueue' =
              IF r = "ERROR" THEN presentQueue
              ELSE Append(presentQueue, [slot |-> currentFrame, image |-> imageIndex])
         /\ presRecreates' = IF presentIsStale(r) THEN 1 ELSE 0
         /\ IF presentIsStale(r)
            THEN /\ pc' = "rc_size"
                 /\ rcRet' = "present"
                 /\ UNCHANGED errorSite
            ELSE IF r = "SUCCESS"
            THEN /\ pc' = "next"
                 /\ UNCHANGED <<rcRet, errorSite>>
            ELSE /\ pc' = "failed"
                 /\ errorSite' = "present"
                 /\ UNCHANGED rcRet
    /\ UNCHANGED <<imageAvailable, renderFinished, computeFinished>>
    /\ UNCHANGED <<szRead, currentFrame, imageIndex, frames>>
    /\ UNCHANGED <<acqFirst, acqAttempts, acqRecreates, gpuObs>>
    /\ UNCHANGED <<winVars, ctxVars, scVars, cpVars, gpuVars>>
    /\ UNCHANGED <<exitVars, cmdCompute, fnVars, ownVars, descriptorPool>>


\* ------------------------------------------------------------ ComputePipeline
\* createStorageImage reusing the extent of the image it replaces
createStorageImage_extent_mut == storageExtent

\* createStorageImage: the extent it creates the image with (sc.getExtent())
createStorageImage_extent == swapchainExtent

\* The storage image exists: view, image and memory
storageLive == \A h \in Handles : storageHandles[h]

\* destroyStorageImage releasing the image before its view
destroyOrder_imageFirst == <<"image", "view", "memory">>

\* destroyStorageImage: the order of its three guarded releases
destroyOrder == <<"view", "image", "memory">>

\* ComputePipeline::destroyStorageImage: each handle that is not null is
\* released and nulled; the descriptor set keeps the view it was written with
destroyStorageImage ==
    /\ released' = (IF destroyCalls = 0 THEN << >> ELSE released)
                       \o SelectSeq(destroyOrder, LAMBDA h : storageHandles[h])
    /\ storageHandles' = [h \in Handles |-> FALSE]
    /\ destroyCalls' = destroyCalls + 1
    /\ descriptorSetView' = IF storageHandles["view"] THEN "stale" ELSE descriptorSetView

\* ComputePipeline::recreate: vkDeviceWaitIdle, destroyStorageImage
ComputePipeline_recreate ==
    /\ pc = "rz_compute"
    /\ DeviceIdle
    /\ destroyStorageImage
    /\ pc' = "cs_create"
    /\ UNCHANGED <<storageExtent, storageLayout, createPending>>
    /\ UNCHANGED <<rcRet, szRead, currentFrame, imageIndex, frames, res, errorSite>>
    /\ UNCHANGED <<winVars, ctxVars, scVars, semVars, gpuVars, obsVars, exitVars, cmdCompute, fnVars>>
    /\ frameSemsLive' = recreate_signals[1] /\ computeFinishedLive' = recreate_signals[2]
    /\ UNCHANGED descriptorPool

\* createStorageImage: vkCreateImage, vkAllocateMemory, vkBindImageMemory,
\* vkCreateImageView; the new image is in the UNDEFINED layout
createStorageImage_objects ==
    /\ pc = "cs_create"
    /\ storageHandles' = [h \in Handles |-> TRUE]
    /\ storageExtent' = createStorageImage_extent
    /\ storageLayout' = "UNDEFINED"
    /\ destroyCalls' = 0
    /\ pc' = "cs_submit"
    /\ UNCHANGED <<createPending, descriptorSetView, released>>
    /\ UNCHANGED <<rcRet, szRead, currentFrame, imageIndex, frames, res, errorSite>>
    /\ UNCHANGED <<winVars, ctxVars, scVars, semVars, gpuVars, obsVars, exitVars, cmdCompute, fnVars, ownVars, descriptorPool>>

\* ... with vkCreateImage, vkAllocateMemory or vkCreateImageView failing:
\* createStorageImage throws with the handles created so far
createStorageImage_objectsFail ==
    /\ pc = "cs_create"
    /\ \E live \in { {}, {"image"}, {"image", "memory"} } :
         /\ storageHandles' = [h \in Handles |-> h \in live]
         /\ destroyCalls' = IF live = {} THEN destroyCalls ELSE 0
    /\ pc' = "failed"
    /\ errorSite' = "createStorageImage"
    /\ UNCHANGED <<storageExtent, storageLayout, createPending, descriptorSetView, released>>
    /\ UNCHANGED <<rcRet, szRead, currentFrame, imageIndex, frames, res>>
    /\ UNCHANGED <<winVars, ctxVars, scVars, semVars, gpuVars, obsVars, exitVars, cmdCompute, fnVars, ownVars, descriptorPool>>

\* createStorageImage: vkQueueSubmit2 of the UNDEFINED -> GENERAL transition
\* on the compute queue; its VkResult is not looked at
createStorageImage_submit ==
    /\ pc = "cs_submit"
    /\ \E r \in {"SUCCESS", "ERROR"} : createPending' = (r = "SUCCESS")
    /\ pc' = "cs_wait"
    /\ UNCHANGED <<storageHandles, storageExtent, storageLayout, descriptorSetView,
                   released, destroyCalls>>
    /\ UNCHANGED <<rcRet, szRead, currentFrame, imageIndex, frames, res, errorSite>>
    /\ UNCHANGED <<winVars, ctxVars, scVars, semVars, gpuVars, obsVars, exitVars, cmdCompute, fnVars, ownVars, descriptorPool>>

\* compute queue: the transition submitted by createStorageImage
gpu_createTransition ==
    /\ createPending
    /\ storageLayout' = "GENERAL"
    /\ createPending' = FALSE
    /\ UNCHANGED <<storageHandles, storageExtent, descriptorSetView, released, destroyCalls>>
    /\ UNCHANGED <<winVars, ctxVars, scVars, semVars, gpuVars, hostVars, obsVars, exitVars, cmdCompute, fnVars, ownVars, descriptorPool>>

\* createStorageImage: vkQueueWaitIdle(compute queue), free the buffer, return
createStorageImage_waitIdle ==
    /\ pc = "cs_wait"
    /\ ComputeQueueIdle /\ ~createPending
    /\ pc' = "rz_pool"
    /\ UNCHANGED <<rcRet, szRead, currentFrame, imageIndex, frames, res, errorSite>>
    /\ UNCHANGED <<winVars, ctxVars, scVars, cpVars, semVars, gpuVars, obsVars, exitVars, cmdCompute, fnVars, ownVars, descriptorPool>>

\* ComputePipeline::recreate keeping the descriptor set it has
createDescriptorPoolAndSets_keep == descriptorSetView

\* createDescriptorPoolAndSets: the view the new set is written with
\* (info.imageView = storageView)
createDescriptorPoolAndSets_view == "current"

\* ComputePipeline::recreate: destroy the descriptor pool and null its handle,
\* create a new pool and a set written with the new view
ComputePipeline_recreateDescriptors ==
    /\ pc = "rz_pool"
    /\ descriptorSetView' = createDescriptorPoolAndSets_view
    /\ descriptorPool' = vkCreateDescriptorPool
    /\ pc' = "rz_reset"
    /\ UNCHANGED <<storageHandles, storageExtent, storageLayout, createPending,
                   released, destroyCalls>>
    /\ UNCHANGED <<rcRet, szRead, currentFrame, imageIndex, frames, res, errorSite>>
    /\ UNCHANGED <<winVars, ctxVars, scVars, semVars, gpuVars, obsVars, exitVars, cmdCompute, fnVars, ownVars>>

\* ... with vkCreateDescriptorPool failing (the handle is as the destroy left
\* it) or vkAllocateDescriptorSets failing (the handle names the new pool)
ComputePipeline_recreateDescriptorsFail ==
    /\ pc = "rz_pool"
    /\ pc' = "failed"
    /\ errorSite' = "createDescriptorPool"
    /\ \/ descriptorPool' = recreate_destroyDescriptorPool(descriptorPool)
       \/ descriptorPool' = vkCreateDescriptorPool
    /\ UNCHANGED <<rcRet, szRead, currentFrame, imageIndex, frames, res>>
    /\ UNCHANGED <<winVars, ctxVars, scVars, cpVars, semVars, gpuVars, obsVars, exitVars, cmdCompute, fnVars, ownVars>>

\* ComputePipeline::dispatch: the commands recorded in cmdCompute between
\* vkBeginCommandBuffer and vkEndCommandBuffer, in order
dispatch_computeCommands ==
    <<"vkCmdBindPipeline", "vkCmdBindDescriptorSets", "vkCmdDispatch",
      "vkCmdPipelineBarrier2">>

\* ComputePipeline::dispatch, part 1: record the compute buffer and submit it
\* to the compute queue
dispatch_compute(image, waitSemaphore, signalSemaphore) ==
    /\ dstImage' = image
    /\ waitSem' = waitSemaphore
    /\ signalSem' = signalSemaphore
    /\ submitted' = {"compute"}
    /\ done' = {}
    /\ lateToSrc' = lateToSrc
          + (IF "compute" \in submitted /\ ~Has("storageToSrc") THEN 1 ELSE 0)
    /\ cmdCompute' = dispatch_computeCommands
    /\ pc' = "d_gfx"

\* main: compute.dispatch(imageIndex, imageAvailableSems[currentFrame],
\* renderFinishedSems[currentFrame], camData), up to the compute submission
dispatch_submitCompute ==
    /\ pc = "dispatch"
    /\ dispatch_compute(imageIndex, currentFrame, currentFrame)
    /\ UNCHANGED <<rcRet, szRead, currentFrame, imageIndex, frames, res, errorSite>>
    /\ UNCHANGED <<winVars, ctxVars, scVars, cpVars, semVars, obsVars>>
    /\ UNCHANGED <<exitVars, ownVars, descriptorPool, fnVars>>

\* ... with vkQueueSubmit2 on the compute queue failing
dispatch_submitComputeFails ==
    /\ pc = "dispatch"
    /\ pc' = "failed"
    /\ errorSite' = "submitCompute"
    /\ UNCHANGED <<rcRet, szRead, currentFrame, imageIndex, frames, res>>
    /\ UNCHANGED <<winVars, ctxVars, scVars, cpVars, semVars, gpuVars, obsVars>>
    /\ cmdCompute' = dispatch_computeCommands
    /\ UNCHANGED <<exitVars, ownVars, descriptorPool, fnVars>>

\* ComputePipeline::dispatch, part 2: record the graphics buffer and submit it
\* to the graphics queue
dispatch_submitGfx ==
    /\ pc = "d_gfx"
    /\ submitted' = submitted \cup {"graphics"}
    /\ pc' = "d_idle"
    /\ UNCHANGED <<done, lateToSrc, waitSem, signalSem, dstImage>>
    /\ UNCHANGED <<rcRet, szRead, currentFrame, imageIndex, frames, res, errorSite>>
    /\ UNCHANGED <<winVars, ctxVars, scVars, cpVars, semVars, obsVars>>
    /\ UNCHANGED <<exitVars, cmdCompute, fnVars, ownVars, descriptorPool>>

\* ... with vkQueueSubmit2 on the graphics queue failing
dispatch_submitGfxFails ==
    /\ pc = "d_gfx"
    /\ pc' = "failed"
    /\ errorSite' = "submitGfx"
    /\ UNCHANGED <<rcRet, szRead, currentFrame, imageIndex, frames, res>>
    /\ UNCHANGED <<winVars, ctxVars, scVars, cpVars, semVars, gpuVars, obsVars>>
    /\ UNCHANGED <<exitVars, cmdCompute, fnVars, ownVars, descriptorPool>>

\* ComputePipeline::dispatch, part 3: vkQueueWaitIdle(graphics queue), return
dispatch_waitIdle ==
    /\ pc = "d_idle"
    /\ GraphicsQueueIdle
    /\ dispatches' = dispatches + 1
    /\ pc' = "present"
    /\ UNCHANGED <<callObs, sigCount, waitCount, doubleSignal>>
    /\ UNCHANGED <<rcRet, szRead, currentFrame, imageIndex, frames, res, errorSite>>
    /\ UNCHANGED <<winVars, ctxVars, scVars, cpVars, semVars, gpuVars>>
    /\ UNCHANGED <<exitVars, cmdCompute, fnVars, ownVars, descriptorPool>>

\* ------------------------------------------------------------- main: frame loop
\* while (!window.shouldClose()): the window was asked to close
main_loopExit ==
    /\ pc = "loop"
    /\ pc' = "shutdown"
    /\ UNCHANGED <<rcRet, szRead, currentFrame, imageIndex, frames, res, errorSite>>
    /\ UNCHANGED <<winVars, ctxVars, scVars, cpVars, semVars, gpuVars, obsVars>>
    /\ UNCHANGED <<exitVars, cmdCompute, fnVars, ownVars, descriptorPool>>

\* window.pollEvents() and the test of window.wasResized()
pollEvents(limit) ==
    /\ pc = "loop"
    /\ frames < limit
    /\ framebufferResizeCallback
    /\ pc' = IF framebufferResized' THEN "rz_idle" ELSE "acquire"
    /\ UNCHANGED <<fb, resizes>>
    /\ UNCHANGED <<rcRet, szRead, currentFrame, imageIndex, frames, res, errorSite>>
    /\ UNCHANGED <<ctxVars, scVars, cpVars, semVars, gpuVars, obsVars>>
    /\ UNCHANGED <<exitVars, cmdCompute, fnVars, ownVars, descriptorPool>>

\* The frame loop, for at most MaxFrames iterations
main_pollEvents == pollEvents(MaxFrames)

\* The frame loop, for at most LoopFrames iterations
loop_pollEvents == pollEvents(LoopFrames)

\* resize path: vkDeviceWaitIdle(device); swapchain.recreate() is entered
main_resizeWaitIdle ==
    /\ pc = "rz_idle"
    /\ DeviceIdle
    /\ pc' = "rc_size"
    /\ rcRet' = "resize"
    /\ UNCHANGED <<szRead, currentFrame, imageIndex, frames, res, errorSite>>
    /\ UNCHANGED <<winVars, ctxVars, scVars, cpVars, semVars, gpuVars, obsVars>>
    /\ UNCHANGED <<exitVars, cmdCompute, fnVars, ownVars, descriptorPool>>

\* A resetResizeFlag that leaves the flag as it is
resetResizeFlag_keeps == framebufferResized

\* Window::resetResizeFlag: framebufferResized = false
resetResizeFlag == FALSE

\* resize path: window.resetResizeFlag()
main_resetResizeFlag ==
    /\ pc = "rz_reset"
    /\ framebufferResized' = resetResizeFlag
    /\ pc' = "acquire"
    /\ UNCHANGED <<fb, pendingResize, pendingOther, resizes>>
    /\ UNCHANGED <<rcRet, szRead, currentFrame, imageIndex, frames, res, errorSite>>
    /\ UNCHANGED <<ctxVars, scVars, cpVars, semVars, gpuVars, obsVars>>
    /\ UNCHANGED <<exitVars, cmdCompute, fnVars, ownVars, descriptorPool>>

\* A slot advance that skips a slot
nextSlot_skip(slot) == (slot + 2) % MAX_FRAMES

\* (currentFrame + 1) % MAX_FRAMES
nextSlot(slot) == (slot + 1) % MAX_FRAMES

\* currentFrame = (currentFrame + 1) % MAX_FRAMES
main_nextFrame ==
    /\ pc = "next"
    /\ currentFrame' = nextSlot(currentFrame)
    /\ frames' = frames + 1
    /\ pc' = "loop"
    /\ imageIndex' = 0
    /\ res' = "SUCCESS"
    /\ acqFirst' = "SUCCESS"
    /\ acqAttempts' = 0
    /\ acqRecreates' = 0
    /\ presRecreates' = 0
    /\ UNCHANGED <<rcRet, szRead, errorSite, gpuObs>>
    /\ UNCHANGED <<winVars, ctxVars, scVars, cpVars, semVars, gpuVars>>
    /\ UNCHANGED <<exitVars, cmdCompute, fnVars, ownVars, descriptorPool>>

\* main, before the loop: Window, VulkanContext, surface, Swapchain,
\* ComputePipeline and the per-slot semaphores are constructed, chain and
\* storage image at the initial framebuffer size (the storage image
\* transitioned to GENERAL by createStorageImage)
main_construct ==
    /\ pc = "construct"
    /\ chainLive' = TRUE
    /\ swapchainExtent' = InitialSize
    /\ swapchainImages' = [count |-> createSwapchain_imageCount, chain |-> "live"]
    /\ swapchainImageViews' = createSwapchain_imageCount
    /\ storageHandles' = [h \in Handles |-> TRUE]
    /\ storageExtent' = swapchainExtent'
    /\ storageLayout' = "GENERAL"
    /\ descriptorSetView' = createDescriptorPoolAndSets_view
    /\ descriptorPool' = vkCreateDescriptorPool
    /\ computeFinishedLive' = TRUE
    /\ frameSemsLive' = TRUE
    /\ pc' = "loop"
    /\ UNCHANGED <<swapLayout, createPending, released, destroyCalls>>
    /\ UNCHANGED <<rcRet, szRead, currentFrame, imageIndex, frames, res, errorSite>>
    /\ UNCHANGED <<winVars, ctxVars, semVars, gpuVars, obsVars, exitVars, cmdCompute, fnVars>>

\* The constructors and creation calls of main that can throw, in order
ConstructionSites ==
    <<"Window", "VulkanContext", "Swapchain", "ComputePipeline", "createSemaphore">>

\* ... with one of them throwing: the locals constructed before it exist
main_constructFails ==
    /\ pc = "construct"
    /\ \E i \in 1..Len(ConstructionSites) :
         /\ errorSite' = ConstructionSites[i]
         /\ IF i > 3
            THEN /\ chainLive' = TRUE
                 /\ swapchainExtent' = InitialSize
                 /\ swapchainImages' = [count |-> createSwapchain_imageCount, chain |-> "live"]
                 /\ swapchainImageViews' = createSwapchain_imageCount
            ELSE UNCHANGED <<chainLive, swapchainExtent, swapchainImages, swapchainImageViews>>
         /\ IF i > 4
            THEN /\ storageHandles' = [h \in Handles |-> TRUE]
                 /\ storageExtent' = InitialSize
                 /\ storageLayout' = "GENERAL"
                 /\ descriptorSetView' = createDescriptorPoolAndSets_view
                 /\ descriptorPool' = vkCreateDescriptorPool
                 /\ computeFinishedLive' = TRUE
                 /\ frameSemsLive' \in BOOLEAN
            ELSE IF i = 4
            THEN \* the ComputePipeline constructor threw before or after
                 \* its createStorageImage
                 /\ \E made \in BOOLEAN :
                      /\ storageHandles' = [h \in Handles |-> made]
                      /\ storageExtent' = IF made THEN InitialSize ELSE storageExtent
                      /\ storageLayout' = IF made THEN "GENERAL" ELSE storageLayout
                 /\ UNCHANGED <<descriptorSetView, ownVars, descriptorPool>>
            ELSE UNCHANGED <<storageHandles, storageExtent, storageLayout,
                             descriptorSetView, ownVars, descriptorPool>>
    /\ pc' = "failed"
    /\ UNCHANGED <<swapLayout, createPending, released, destroyCalls>>
    /\ UNCHANGED <<rcRet, szRead, currentFrame, imageIndex, frames, res>>
    /\ UNCHANGED <<winVars, ctxVars, semVars, gpuVars, obsVars, exitVars, cmdCompute, fnVars>>

\* The local swapchain / compute of main has been constructed
swapchainConstructed ==
    pc # "construct" /\ errorSite \notin {"Window", "VulkanContext", "Swapchain"}
computeConstructed ==
    swapchainConstructed /\ errorSite # "ComputePipeline"

\* main: the value returned at the end of the try block
main_returnOk == 0

\* main's catch block returning the value of a normal exit
main_returnError_asOk == main_returnOk

\* main: the value returned by the catch block
main_returnError == -1

\* The destructors of main's locals that the model follows, in the order they
\* run: ~ComputePipeline (destroyStorageImage), ~Swapchain (cleanup)
main_destructors ==
    /\ computeFinishedLive' = (IF computeConstructed THEN FALSE ELSE computeFinishedLive)
    /\ descriptorPool' = (IF computeConstructed
                            THEN ComputePipeline_destroyDescriptorPool(descriptorPool)
                            ELSE descriptorPool)
    /\ IF computeConstructed THEN destroyStorageImage
       ELSE UNCHANGED <<storageHandles, descriptorSetView, released, destroyCalls>>
    /\ IF swapchainConstructed THEN cleanup
       ELSE UNCHANGED <<chainLive, swapchainImages, swapchainImageViews, presentQueue>>

\* after the loop: vkDeviceWaitIdle(device), destroy the per-slot semaphores,
\* return 0 (the locals of the try block are destroyed)
main_shutdown ==
    /\ pc = "shutdown"
    /\ DeviceIdle
    /\ main_destructors
    /\ frameSemsLive' = FALSE
    /\ exitStatus' = main_returnOk
    /\ pc' = "done"
    /\ UNCHANGED <<swapchainExtent, swapLayout, storageExtent, storageLayout, createPending>>
    /\ UNCHANGED <<rcRet, szRead, currentFrame, imageIndex, frames, res, errorSite, message>>
    /\ UNCHANGED <<winVars, ctxVars, imageAvailable, renderFinished, computeFinished, gpuVars, obsVars, cmdCompute, fnVars>>

\* An exception leaves the try block: its locals are destroyed before the
\* handler runs
main_unwind ==
    /\ pc = "failed"
    /\ main_destructors
    /\ pc' = "catch"
    /\ UNCHANGED <<swapchainExtent, swapLayout, storageExtent, storageLayout, createPending>>
    /\ UNCHANGED <<rcRet, szRead, currentFrame, imageIndex, frames, res, errorSite>>
    /\ UNCHANGED <<winVars, ctxVars, imageAvailable, renderFinished, computeFinished, gpuVars, obsVars, exitVars, cmdCompute, fnVars, frameSemsLive>>

\* catch (const std::exception& e): print e.what(), return -1
main_catch ==
    /\ pc = "catch"
    /\ message' = TRUE
    /\ exitStatus' = main_returnError
    /\ pc' = "exited"
    /\ UNCHANGED <<rcRet, szRead, currentFrame, imageIndex, frames, res, errorSite>>
    /\ UNCHANGED <<winVars, ctxVars, scVars, cpVars, semVars, gpuVars, obsVars>>
    /\ UNCHANGED <<ownVars, descriptorPool, cmdCompute, fnVars>>

\* ------------------------------------------------------------- specification
\* The state when main enters its try block: nothing constructed yet. The
\* platform facts (queue families, what the surface reports) are fixed.
MainInit ==
    /\ fb = InitialSize
    /\ pendingResize = FALSE
    /\ pendingOther = FALSE
    /\ framebufferResized = FALSE
    /\ resizes = 0
    /\ sharedQueue \in BOOLEAN
    /\ capsDefined \in BOOLEAN
    /\ chainLive = FALSE
    /\ swapchainImages = [count |-> 0, chain |-> "live"]
    /\ swapchainImageViews = 0
    /\ swapchainExtent = <<0, 0>>
    /\ swapLayout = "UNDEFINED"
    /\ storageHandles = [h \in Handles |-> FALSE]
    /\ createPending = FALSE
    /\ descriptorSetView = "stale"
    /\ released = << >>
    /\ destroyCalls = 0
    /\ exitStatus = 0
    /\ message = FALSE
    /\ frameSemsLive = FALSE
    /\ computeFinishedLive = FALSE
    /\ descriptorPool = NoPool
    /\ cmdCompute = <<>>
    /\ storageExtent = <<0, 0>>
    /\ storageLayout = "UNDEFINED"
    /\ imageAvailable = [i \in Slots |-> "unsignaled"]
    /\ renderFinished = [i \in Slots |-> "unsignaled"]
    /\ computeFinished = FALSE
    /\ presentQueue = <<>>
    /\ submitted = {}
    /\ done = {}
    /\ lateToSrc = 0
    /\ waitSem = NoSem
    /\ signalSem = NoSem
    /\ dstImage = NoImage
    /\ pc = "construct"
    /\ rcRet = "none"
    /\ szRead = <<0, 0>>
    /\ currentFrame = 0
    /\ imageIndex = 0
    /\ frames = 0
    /\ res = "SUCCESS"
    /\ errorSite = "none"
    /\ acqFirst = "SUCCESS"
    /\ acqAttempts = 0
    /\ acqRecreates = 0
    /\ presRecreates = 0
    /\ sigCount = 0
    /\ waitCount = 0
    /\ dispatches = 0
    /\ doubleSignal = FALSE

\* main calls the functions below only through the objects above: in its run
\* no separate call is followed
Init ==
    /\ MainInit
    /\ minImageCount = ImageCount - 1
    /\ callee = "none"
    /\ args = <<>>
    /\ result = <<>>
    /\ returned = FALSE

Next ==
    \/ main_construct
    \/ main_constructFails
    \/ OsResize
    \/ OsInput
    \/ engine_signalImageAvailable
    \/ engine_presentWait
    \/ gpu_waitAcquire
    \/ gpu_computeWrite
    \/ gpu_storageToSrc
    \/ gpu_lateStorageToSrc
    \/ gpu_signalComputeDone
    \/ gpu_waitComputeDone
    \/ gpu_presentToDst
    \/ gpu_blit
    \/ gpu_barriersEnd
    \/ gpu_signalRenderDone
    \/ recreate_getFramebufferSize
    \/ recreate_waitEvents
    \/ recreate_vkDeviceWaitIdle
    \/ recreate_cleanup
    \/ recreate_rebuild
    \/ recreate_rebuildFails
    \/ acquireNextImage
    \/ acquireNextImage_retry
    \/ present
    \/ ComputePipeline_recreate
    \/ createStorageImage_objects
    \/ createStorageImage_objectsFail
    \/ createStorageImage_submit
    \/ gpu_createTransition
    \/ createStorageImage_waitIdle
    \/ ComputePipeline_recreateDescriptors
    \/ ComputePipeline_recreateDescriptorsFail
    \/ dispatch_submitCompute
    \/ dispatch_submitComputeFails
    \/ dispatch_submitGfx
    \/ dispatch_submitGfxFails
    \/ dispatch_waitIdle
    \/ main_loopExit
    \/ main_pollEvents
    \/ main_resizeWaitIdle
    \/ main_resetResizeFlag
    \/ main_nextFrame
    \/ main_shutdown
    \/ main_unwind
    \/ main_catch

Spec == Init /\ [][Next]_vars

\* ------------------------------------------- functions called on their own
\* Width of the unsigned words the extent arithmetic is followed at (the code's
\* uint32_t, reduced)
WordBits == 11
Word == 2 ^ WordBits

\* Unsigned arithmetic wraps
wrap(x) == x % Word

\* Heights the width is paired with
HeightSamples == {0, 1, 16, 1080, Word - 16, Word - 1}

\* ComputePipeline::dispatch: const uint32_t wgX = (extent.width + 15) / 16
\* (wgY alike)
workgroupCount(e) == wrap(e + 15) \div 16

\* ComputePipeline::dispatch: the counts handed to vkCmdDispatch for the
\* extent sc.getExtent() returned
call_workgroups ==
    /\ callee = "dispatch_workgroups"
    /\ ~returned
    /\ result' = <<workgroupCount(args[1]), workgroupCount(args[2])>>
    /\ returned' = TRUE
    /\ UNCHANGED <<callee, args>>
    /\ UNCHANGED <<winVars, ctxVars, scVars, cpVars, semVars, gpuVars, hostVars, obsVars,
                   exitVars, ownVars, descriptorPool, cmdCompute>>

\* Largest extent component, and longest list, the selection functions are
\* called with
MaxExtentVal == 3
MaxList == 3

\* Extents a surface reports as limits or as its current extent, and sizes
\* glfwGetFramebufferSize returns
ExtentVals == (0 .. MaxExtentVal) \X (0 .. MaxExtentVal)
FramebufferVals == (0 .. MaxExtentVal + 1) \X (0 .. MaxExtentVal + 1)

\* a lies within [lo, hi] in both components
Within(a, lo, hi) == \A i \in 1..2 : lo[i] <= a[i] /\ a[i] <= hi[i]

\* The VkSurfaceCapabilitiesKHR a surface can report: limits with
\* min <= max, and a current extent that is the all-ones value or lies
\* within the limits
SurfaceCapabilities ==
    {c \in [currentExtent : ExtentVals \cup {UndefinedExtent},
            minImageExtent : ExtentVals,
            maxImageExtent : ExtentVals] :
        /\ Within(c.minImageExtent, c.minImageExtent, c.maxImageExtent)
        /\ (c.currentExtent # UndefinedExtent =>
               Within(c.currentExtent, c.minImageExtent, c.maxImageExtent))}

\* VkSurfaceFormatKHR values a surface may offer
SurfaceFormats ==
    [format : {"B8G8R8A8_SRGB", "B8G8R8A8_UNORM", "R8G8B8A8_SRGB"},
     colorSpace : {"SRGB_NONLINEAR_KHR", "EXTENDED_SRGB_LINEAR_EXT"}]

\* VkPresentModeKHR values a surface may offer
PresentModes == {"IMMEDIATE_KHR", "MAILBOX_KHR", "FIFO_KHR", "FIFO_RELAXED_KHR"}

\* The vectors of length lo..MaxList over S
Lists(S, lo) == UNION {[1..n -> S] : n \in lo..MaxList}

\* The test of chooseSwapSurfaceFormat's loop looking at the format only
isPreferredFormat_formatOnly(f) == f.format = "B8G8R8A8_SRGB"

\* chooseSwapSurfaceFormat: the test of its loop
isPreferredFormat(f) ==
    f.format = "B8G8R8A8_SRGB" /\ f.colorSpace = "SRGB_NONLINEAR_KHR"

\* chooseSwapSurfaceFormat: the loop from entry i on, then return formats[0]
RECURSIVE chooseSwapSurfaceFormat_from(_, _)
chooseSwapSurfaceFormat_from(formats, i) ==
    IF i > Len(formats) THEN formats[1]
    ELSE IF isPreferredFormat(formats[i]) THEN formats[i]
    ELSE chooseSwapSurfaceFormat_from(formats, i + 1)

\* Swapchain::chooseSwapSurfaceFormat
chooseSwapSurfaceFormat(formats) == chooseSwapSurfaceFormat_from(formats, 1)

\* chooseSwapPresentMode: the loop from entry i on, then return FIFO
RECURSIVE chooseSwapPresentMode_from(_, _)
chooseSwapPresentMode_from(modes, i) ==
    IF i > Len(modes) THEN "FIFO_KHR"
    ELSE IF modes[i] = "MAILBOX_KHR" THEN modes[i]
    ELSE chooseSwapPresentMode_from(modes, i + 1)

\* A selection that looks at the first offered mode only
chooseSwapPresentMode_first(modes) ==
    IF Len(modes) > 0 /\ modes[1] = "MAILBOX_KHR" THEN "MAILBOX_KHR" ELSE "FIFO_KHR"

\* Swapchain::chooseSwapPresentMode
chooseSwapPresentMode(modes) == chooseSwapPresentMode_from(modes, 1)

\* Most memory types a device reports in the calls followed
\* (memProps.memoryTypeCount)
MaxShutdowns == 3   \* shutdown calls on one context
MaxTypes == 3

\* VkMemoryPropertyFlags as bit masks: DEVICE_LOCAL is bit 0, HOST_VISIBLE bit 1
MemoryFlags == 0 .. 3

\* The masks vkGetImageMemoryRequirements may report in memoryTypeBits
TypeBitsVals == 0 .. (2 ^ (MaxTypes + 1) - 1)

\* a & b on unsigned words
RECURSIVE bitAnd(_, _)
bitAnd(a, b) ==
    IF a = 0 \/ b = 0 THEN 0
    ELSE (a % 2) * (b % 2) + 2 * bitAnd(a \div 2, b \div 2)

\* A flag test that accepts a type having any one of the requested flags
hasFlags_any(propertyFlags, props) == bitAnd(propertyFlags, props) # 0

\* findMemoryType: (memProps.memoryTypes[i].propertyFlags & props) == props
hasFlags(propertyFlags, props) == bitAnd(propertyFlags, props) = props

\* findMemoryType: the loop from index i on (memoryTypes[i] of the code is
\* memoryTypes[i + 1] here), then the throw
RECURSIVE findMemoryType_from(_, _, _, _)
findMemoryType_from(typeBits, props, memoryTypes, i) ==
    IF ~(i < Len(memoryTypes)) THEN [threw |-> TRUE, index |-> 0]
    ELSE IF bitAnd(typeBits, 2 ^ i) # 0 /\ hasFlags(memoryTypes[i + 1], props)
    THEN [threw |-> FALSE, index |-> i]
    ELSE findMemoryType_from(typeBits, props, memoryTypes, i + 1)

\* ComputePipeline::findMemoryType, memoryTypes being what
\* vkGetPhysicalDeviceMemoryProperties reports
findMemoryType(typeBits, props, memoryTypes) ==
    findMemoryType_from(typeBits, props, memoryTypes, 0)

\* The handles of a VulkanContext; TRUE is a handle that is not VK_NULL_HANDLE
ContextHandles == {"instance", "surface", "device", "graphicsCmdPool", "computeCmdPool"}

\* The states a VulkanContext can be in: the instance is made by the
\* constructor, initializeForSurface sets the surface, then creates the
\* device, then the command pools (compute first); shutdown nulls handles
Contexts ==
    {ctx \in [ContextHandles -> BOOLEAN] :
        /\ ctx["surface"] => ctx["instance"]
        /\ ctx["device"] => ctx["surface"]
        /\ ctx["computeCmdPool"] => ctx["device"]
        /\ ctx["graphicsCmdPool"] => ctx["computeCmdPool"]}

\* The context main has at the end of its frame loop
InitializedContext == [h \in ContextHandles |-> TRUE]

\* #define DESTROY_SURFACE_IN_CONTEXT 1
DESTROY_SURFACE_IN_CONTEXT == TRUE

\* shutdown: the device-scoped part
shutdown_device(ctx) ==
    IF ctx["device"]
    THEN (IF ctx["graphicsCmdPool"] THEN <<"vkDestroyCommandPool(graphicsCmdPool)">> ELSE << >>)
         \o (IF ctx["computeCmdPool"] THEN <<"vkDestroyCommandPool(computeCmdPool)">> ELSE << >>)
         \o <<"vkDestroyDevice">>
    ELSE << >>

\* A shutdown that destroys the surface whatever its handle is
shutdown_surface_unguarded(ctx) ==
    IF DESTROY_SURFACE_IN_CONTEXT THEN <<"vkDestroySurfaceKHR">> ELSE << >>

\* shutdown: if (surface != VK_NULL_HANDLE && instance != VK_NULL_HANDLE)
\* vkDestroySurfaceKHR
shutdown_surface(ctx) ==
    IF DESTROY_SURFACE_IN_CONTEXT /\ ctx["surface"] /\ ctx["instance"]
    THEN <<"vkDestroySurfaceKHR">> ELSE << >>

\* shutdown: if (instance != VK_NULL_HANDLE) vkDestroyInstance
shutdown_instance(ctx) ==
    IF ctx["instance"] THEN <<"vkDestroyInstance">> ELSE << >>

\* VulkanContext::shutdown: the destroy calls it makes, in order, and the
\* handles it leaves
shutdown(ctx) ==
    [calls |-> shutdown_device(ctx) \o shutdown_surface(ctx) \o shutdown_instance(ctx),
     ctx   |-> [h \in ContextHandles |->
                  CASE h = "device"   -> FALSE
                    [] h = "instance" -> FALSE
                    [] h = "surface"  ->
                         ctx[h] /\ ~(DESTROY_SURFACE_IN_CONTEXT /\ ctx["instance"])
                    [] OTHER          -> ctx[h] /\ ~ctx["device"]]]

\* main after the frame loop: vkDeviceWaitIdle, the per-slot semaphores, then
\* the locals of the try block in reverse order of declaration (compute,
\* swapchain, context, window); the surface handle of main has no destructor
main_teardown(ctx) ==
    [calls |-> <<"vkDeviceWaitIdle", "vkDestroySemaphore(per-slot)",
                 "~ComputePipeline", "~Swapchain">>
                 \o shutdown(ctx).calls \o <<"~Window">>,
     ctx   |-> shutdown(ctx).ctx]

\* The call returns v
fn_return(v) ==
    /\ ~returned
    /\ result' = v
    /\ returned' = TRUE
    /\ UNCHANGED <<callee, args>>
    /\ UNCHANGED <<winVars, ctxVars, scVars, cpVars, semVars, gpuVars, hostVars, obsVars,
                   exitVars, ownVars, descriptorPool, cmdCompute>>

\* createSwapchain: VkExtent2D extent = chooseSwapExtent(caps)
call_chooseSwapExtent ==
    /\ callee = "chooseSwapExtent"
    /\ fn_return(chooseSwapExtent(args.capabilities, args.framebuffer))

\* createSwapchain: chooseSwapSurfaceFormat(formats)
call_chooseSwapSurfaceFormat ==
    /\ callee = "chooseSwapSurfaceFormat"
    /\ fn_return(chooseSwapSurfaceFormat(args))

\* createSwapchain: chooseSwapPresentMode(modes)
call_chooseSwapPresentMode ==
    /\ callee = "chooseSwapPresentMode"
    /\ fn_return(chooseSwapPresentMode(args))

\* createStorageImage: findMemoryType(req.memoryTypeBits, props)
call_findMemoryType ==
    /\ callee = "findMemoryType"
    /\ fn_return(findMemoryType(args.typeBits, args.props, args.memoryTypes))

\* context.shutdown() on a context in any of its states
call_shutdown ==
    /\ callee = "VulkanContext_shutdown"
    /\ fn_return([shutdown(args) EXCEPT !.calls = <<shutdown(args).calls>>])

\* main leaves its try block normally
call_main_teardown ==
    /\ callee = "main_teardown"
    /\ fn_return([main_teardown(args) EXCEPT !.calls = <<main_teardown(args).calls>>])

\* shutdown is called again on the context a teardown left (an explicit
\* shutdown() followed by the destructor): result.calls gets the calls of
\* each shutdown in turn
call_shutdownAgain ==
    /\ callee \in {"VulkanContext_shutdown", "main_teardown"}
    /\ returned /\ Len(result.calls) < MaxShutdowns
    /\ result' = [calls |-> Append(result.calls, shutdown(result.ctx).calls),
                  ctx   |-> shutdown(result.ctx).ctx]
    /\ UNCHANGED <<callee, args, returned>>
    /\ UNCHANGED <<winVars, ctxVars, scVars, cpVars, semVars, gpuVars, hostVars, obsVars,
                   exitVars, ownVars, descriptorPool, cmdCompute>>

\* One call with its arguments, nothing of main running
InitFn ==
    /\ MainInit
    /\ minImageCount = ImageCount - 1
    /\ result = <<>>
    /\ returned = FALSE
    /\ \/ /\ callee = "dispatch_workgroups"
          /\ args \in (0 .. Word - 1) \X HeightSamples
       \/ /\ callee = "chooseSwapExtent"
          /\ args \in [capabilities : SurfaceCapabilities, framebuffer : FramebufferVals]
       \/ /\ callee = "chooseSwapSurfaceFormat"
          /\ args \in Lists(SurfaceFormats, 1)
       \/ /\ callee = "chooseSwapPresentMode"
          /\ args \in Lists(PresentModes, 0)
       \/ /\ callee = "findMemoryType"
          /\ args \in [typeBits : TypeBitsVals, props : MemoryFlags,
                       memoryTypes : UNION {[1..n -> MemoryFlags] : n \in 0..MaxTypes}]
       \/ /\ callee = "VulkanContext_shutdown"
          /\ args \in Contexts
       \/ /\ callee = "main_teardown"
          /\ args = InitializedContext

NextFn ==
    \/ call_workgroups
    \/ call_chooseSwapExtent
    \/ call_chooseSwapSurfaceFormat
    \/ call_chooseSwapPresentMode
    \/ call_findMemoryType
    \/ call_shutdown
    \/ call_main_teardown
    \/ call_shutdownAgain

SpecFn == InitFn /\ [][NextFn]_vars

\* ----------------------------------------------------- the frame loop, fair
\* The presentation engine signals what it was handed, both queues execute
\* what was submitted to them, and the host thread goes on inside dispatch.
GpuProgress ==
    /\ WF_vars(engine_signalImageAvailable)
    /\ WF_vars(gpu_waitAcquire)
    /\ WF_vars(gpu_computeWrite)
    /\ WF_vars(gpu_storageToSrc)
    /\ WF_vars(gpu_lateStorageToSrc)
    /\ WF_vars(gpu_signalComputeDone)
    /\ WF_vars(gpu_waitComputeDone)
    /\ WF_vars(gpu_presentToDst)
    /\ WF_vars(gpu_blit)
    /\ WF_vars(gpu_barriersEnd)
    /\ WF_vars(gpu_signalRenderDone)
HostProgress ==
    /\ WF_vars(dispatch_submitGfx \/ dispatch_submitGfxFails)
    /\ WF_vars(dispatch_waitIdle)

FairSpec == Init /\ [][Next]_vars /\ GpuProgress /\ HostProgress

\* ------------------------------------------- dispatch called by any caller
\* The handles a caller may pass for waitSemaphore and signalSemaphore:
\* VK_NULL_HANDLE or one of its semaphores
SemaphoreArgs == {NoSem} \cup Slots

\* A caller, holding an acquired image, calls
\* dispatch(imageIndex, waitSemaphore, signalSemaphore): a wait semaphore it
\* passes is the one it handed to the acquire
api_dispatch ==
    /\ pc = "loop"
    /\ dispatches < MaxFrames
    /\ \E w \in SemaphoreArgs, s \in SemaphoreArgs :
         /\ w # NoSem => imageAvailable[w] = "unsignaled"
         /\ s # NoSem => renderFinished[s] = "unsignaled"
         /\ imageAvailable' = IF w # NoSem
                                THEN [imageAvailable EXCEPT ![w] = "pending"]
                                ELSE imageAvailable
         /\ \E image \in 0..(ImageCount - 1) :
              /\ imageIndex' = image
              /\ dispatch_compute(image, w, s)
    /\ swapLayout' = "UNDEFINED"
    /\ UNCHANGED <<renderFinished, computeFinished, presentQueue>>
    /\ UNCHANGED <<rcRet, szRead, currentFrame, frames, res, errorSite>>
    /\ UNCHANGED <<chainLive, swapchainExtent, swapchainImages, swapchainImageViews>>
    /\ UNCHANGED <<winVars, ctxVars, cpVars, obsVars, exitVars, ownVars, descriptorPool, fnVars>>

\* The caller uses up the signal dispatch gave it (it presents the image)
api_present ==
    /\ pc = "present"
    /\ renderFinished' = [i \in Slots |-> "unsignaled"]
    /\ pc' = "loop"
    /\ UNCHANGED <<imageAvailable, computeFinished, presentQueue>>
    /\ UNCHANGED <<rcRet, szRead, currentFrame, imageIndex, frames, res, errorSite>>
    /\ UNCHANGED <<winVars, ctxVars, scVars, cpVars, gpuVars, obsVars>>
    /\ UNCHANGED <<exitVars, ownVars, descriptorPool, cmdCompute, fnVars>>

NextApi ==
    \/ main_construct
    \/ api_dispatch
    \/ dispatch_submitGfx
    \/ dispatch_submitGfxFails
    \/ dispatch_waitIdle
    \/ api_present
    \/ engine_signalImageAvailable
    \/ gpu_waitAcquire
    \/ gpu_computeWrite
    \/ gpu_storageToSrc
    \/ gpu_lateStorageToSrc
    \/ gpu_signalComputeDone
    \/ gpu_waitComputeDone
    \/ gpu_presentToDst
    \/ gpu_blit
    \/ gpu_barriersEnd
    \/ gpu_signalRenderDone

SpecApi == Init /\ [][NextApi]_vars

\* ... with the presentation engine, the queues and the host making progress
FairApi == Init /\ [][NextApi]_vars /\ GpuProgress /\ HostProgress


\* ===================================================================== claims

\* Positions of the host thread at which a dispatch call has returned and
\* the next one has not begun.
BetweenDispatches == pc \notin {"d_gfx", "d_idle", "failed", "catch", "exited"}

\* C1: in every dispatch the blit of the graphics submission does not execute
\* until the compute submission of the same dispatch has completed (its
\* compute shader, its storageToSrc transition and its signal).
C1_BlitAfterComputeSubmission ==
    ("graphics" \in submitted /\ Has("blit")) => ComputeOps \subseteq done

\* The ordering the semaphore does give: the blit follows the compute shader
\* and the signal/wait pair on computeFinished_.
ComputeStageBeforeBlit ==
    ("graphics" \in submitted /\ Has("blit"))
        => {"computeWrite", "signalComputeDone", "waitComputeDone"} \subseteq done

\* C2: for a dispatch given a non-null availableSignal, neither the
\* undefined-to-transfer-destination transition of the presentable image nor
\* the blit into it executes before availableSignal has been signaled.
C2_ImageUntouchedBeforeAvailable ==
    ("graphics" \in submitted /\ waitSem # NoSem
        /\ (Has("presentToDst") \/ Has("blit")))
        => imageAvailable[waitSem] # "pending"

\* The part of C2 that the semaphore chain does give: the blit write follows
\* the signal of availableSignal.
BlitAfterAvailable ==
    ("graphics" \in submitted /\ waitSem # NoSem /\ Has("blit"))
        => imageAvailable[waitSem] # "pending"


\* C3: over every interleaving of resizes, recreations and dispatches,
\* computeFinished_ is signaled exactly once and waited exactly once per
\* dispatched frame, and is never signaled again while a signal is unconsumed.
C3_ComputeFinishedOncePerFrame ==
    /\ ~doubleSignal
    /\ sigCount - waitCount \in {0, 1}
    /\ computeFinished <=> (sigCount = waitCount + 1)
    /\ BetweenDispatches => (sigCount = dispatches /\ waitCount = dispatches)
    /\ pc \in {"d_gfx", "d_idle"} => (sigCount <= dispatches + 1 /\ waitCount <= dispatches + 1)

\* A second dispatch has returned after a resize rebuilt chain and target.
C3_Witness ==
    /\ dispatches = 2 /\ sigCount = 2 /\ waitCount = 2
    /\ resizes > 0 /\ storageExtent # InitialSize

\* C4: the Offscreen Target is in the GENERAL layout at the start of every
\* dispatch and at its end.
C4_GeneralAtFrameBoundaries ==
    pc \in {"dispatch", "present"} => storageLayout = "GENERAL"

\* C5: when dispatch returns, all GPU work it submitted, compute and graphics,
\* has completed, so that at most one frame is in flight.
C5_DispatchReturnsIdle ==
    pc \in {"present", "next", "loop", "acquire", "dispatch"} => DeviceIdle

\* What the wait on the graphics queue does give: the graphics submission of
\* the returned dispatch has completed.
GraphicsDoneAtReturn ==
    pc = "present" => (GraphicsComplete /\ "graphics" \in submitted)

\* C6: at the start of every dispatch the extent of the Offscreen Target
\* equals the extent of the presentable chain.
C6_ExtentsEqualAtDispatch ==
    pc = "dispatch" => storageExtent = swapchainExtent


\* C7: immediately after ComputePipeline::recreate() returns successfully the
\* Offscreen Target exists and its extent equals the extent the presentable
\* chain reports at that moment, whatever the window size.
C7_RecreateMatchesChainExtent ==
    pc = "rz_reset" => (storageLive /\ storageExtent = swapchainExtent)

\* recreate() has just returned with a target of another size than the first.
C7_Witness ==
    pc = "rz_reset" /\ storageExtent # InitialSize /\ storageExtent = swapchainExtent

\* C8: acquireNextImage recreates the chain exactly once and retries exactly
\* once when, and only when, its first acquisition reports out-of-date; a
\* retry that does not hand out an image (a second out-of-date included) is
\* raised as a fatal error without another recreation or retry.
C8_AcquireRetriesOnce ==
    /\ acqAttempts <= 2 /\ acqRecreates <= 1
    /\ pc = "acq_retry" =>
         (acqFirst = "OUT_OF_DATE" /\ acqAttempts = 1 /\ acqRecreates = 1)
    /\ pc = "dispatch" =>
         /\ res \in {"SUCCESS", "SUBOPTIMAL"}
         /\ IF acqFirst = "OUT_OF_DATE"
            THEN acqAttempts = 2 /\ acqRecreates = 1
            ELSE acqAttempts = 1 /\ acqRecreates = 0
    /\ (pc = "failed" /\ errorSite = "acquire") =>
         /\ res \in {"OUT_OF_DATE", "ERROR"}
         /\ IF acqFirst = "OUT_OF_DATE"
            THEN acqAttempts = 2 /\ acqRecreates = 1
            ELSE acqAttempts = 1 /\ acqRecreates = 0 /\ res = "ERROR"

\* The retry after one recreation failed and the call raised.
C8_Witness ==
    /\ pc = "failed" /\ errorSite = "acquire"
    /\ acqFirst = "OUT_OF_DATE" /\ acqAttempts = 2 /\ acqRecreates = 1
    /\ res \in {"OUT_OF_DATE", "ERROR"}

\* C9: present recreates the chain and returns without raising on an
\* out-of-date or suboptimal result, and raises a fatal error without
\* recreating on any other non-success result.
C9_PresentDropsStaleFrame ==
    /\ rcRet = "present" =>
         (res \in {"OUT_OF_DATE", "SUBOPTIMAL"} /\ presRecreates = 1
            /\ (InRecreate \/ pc \in {"failed", "catch", "exited"}))
    /\ pc = "next" =>
         \/ res = "SUCCESS" /\ presRecreates = 0
         \/ res \in {"OUT_OF_DATE", "SUBOPTIMAL"} /\ presRecreates = 1
    /\ (pc = "failed" /\ errorSite = "present") =>
         (res = "ERROR" /\ presRecreates = 0)

\* present has returned to the frame loop after recreating on a suboptimal
\* result.
C9_Witness ==
    pc = "next" /\ res = "SUBOPTIMAL" /\ presRecreates = 1 /\ errorSite = "none"

\* C10 as stated: no stale-chain result of an acquisition or a presentation
\* ends in a fatal error raised by acquireNextImage or present.
C10_StaleNeverFatal ==
    (pc = "failed" /\ errorSite \in {"acquire", "present"})
        => res \notin {"OUT_OF_DATE", "SUBOPTIMAL"}

\* C10 amended: a stale present and a first out-of-date acquire are absorbed
\* by an internal recreation (a dropped frame, or one retried acquisition);
\* the only stale result raised as fatal is an out-of-date returned again by
\* the single retry of acquireNextImage.
C10_StaleFatalOnlyOnRetry ==
    /\ (pc = "failed" /\ errorSite \in {"acquire", "present"}
          /\ res \in {"OUT_OF_DATE", "SUBOPTIMAL"})
         => (errorSite = "acquire" /\ res = "OUT_OF_DATE"
               /\ acqFirst = "OUT_OF_DATE" /\ acqAttempts = 2)
    /\ rcRet = "acquire" => (res = "OUT_OF_DATE" /\ acqAttempts = 1)
    /\ (pc = "acq_retry" \/ rcRet = "acquire") => errorSite \in {"none", "createSwapchain"}

\* The chain was rebuilt at another size for an out-of-date acquire, and the
\* retry reported out-of-date again.
C10_Witness ==
    /\ pc = "failed" /\ errorSite = "acquire" /\ res = "OUT_OF_DATE"
    /\ acqAttempts = 2 /\ swapchainExtent # InitialSize


\* Number of out-of-date or suboptimal results the current acquireNextImage
\* call has received so far.
acqStaleResults ==
    (IF acqAttempts >= 1 /\ acqFirst \in {"OUT_OF_DATE", "SUBOPTIMAL"} THEN 1 ELSE 0)
  + (IF acqAttempts = 2 /\ res \in {"OUT_OF_DATE", "SUBOPTIMAL"} THEN 1 ELSE 0)

\* C11 as stated: every out-of-date or suboptimal result of an acquisition or
\* of a presentation is answered by an internal recreation of the chain, and
\* none is raised as an error to the frame loop.
C11_EveryStaleResultRecreates ==
    /\ pc = "dispatch" => acqRecreates = acqStaleResults
    /\ (pc = "next" \/ InRecreate) /\ res \in {"OUT_OF_DATE", "SUBOPTIMAL"}
         => (acqRecreates = 1 \/ presRecreates = 1)
    /\ (pc = "failed" /\ errorSite \in {"acquire", "present"})
         => res \notin {"OUT_OF_DATE", "SUBOPTIMAL"}

\* C11 amended: an out-of-date first acquisition and an out-of-date or
\* suboptimal presentation are answered by one internal recreation and raise
\* no error; a suboptimal acquisition is returned as a successful acquisition
\* without a recreation of its own; the only such result raised as an error is
\* an out-of-date returned by the retried acquisition.
C11_StaleHandling ==
    /\ pc = "dispatch" =>
         /\ acqRecreates = (IF acqFirst = "OUT_OF_DATE" THEN 1 ELSE 0)
         /\ res \in {"SUCCESS", "SUBOPTIMAL"}
         /\ errorSite = "none"
    /\ (pc = "next" /\ res \in {"OUT_OF_DATE", "SUBOPTIMAL"})
         => (presRecreates = 1 /\ errorSite = "none")
    /\ (pc = "failed" /\ errorSite = "present") => res \notin {"OUT_OF_DATE", "SUBOPTIMAL"}
    /\ (pc = "failed" /\ errorSite = "acquire" /\ res # "ERROR")
         => (res = "OUT_OF_DATE" /\ acqAttempts = 2 /\ acqRecreates = 1)

\* A suboptimal first acquisition has been returned to the frame loop as an
\* acquired image, the chain left as it was.
C11_Witness ==
    /\ pc = "dispatch" /\ acqFirst = "SUBOPTIMAL" /\ res = "SUBOPTIMAL"
    /\ acqAttempts = 1 /\ acqRecreates = 0 /\ imageAvailable[currentFrame] # "unsignaled"


\* C12: Swapchain::recreate never produces a chain with a zero-sized extent,
\* whatever framebuffer-size changes the window events deliver, a size that
\* becomes zero while recreate waits for events included.
C12_ExtentNeverZero ==
    chainLive => (swapchainExtent[1] > 0 /\ swapchainExtent[2] > 0)

\* What the do-while does give: the size it read before leaving the loop was
\* not zero.
LoopExitSizeNonZero ==
    pc = "rc_build" => (szRead[1] > 0 /\ szRead[2] > 0)


\* C13: Swapchain::recreate blocks on the window event primitive only while
\* the framebuffer is zero-sized: having read a non-zero size it goes on to
\* rebuild the chain without needing another window event to arrive.
C13_NoWaitWhenNonZero ==
    (pc = "rc_wait" /\ szRead[1] > 0 /\ szRead[2] > 0)
        => ENABLED recreate_waitEvents


C15_ImagesViewsOfCurrentChain ==
    (~InRecreate /\ SwapchainExists) =>
        /\ swapchainImages.count = swapchainImageViews
        /\ swapchainImages.chain = "live"
        /\ chainLive

\* The same, for the states in which no operation of the Swapchain has raised.
ConsistentUnlessRaised ==
    (~InRecreate /\ SwapchainExists /\ errorSite # "createSwapchain") =>
        /\ swapchainImages.count = swapchainImageViews
        /\ swapchainImages.chain = "live"
        /\ chainLive


\* C16: destroyStorageImage releases the view, then the image, then the
\* memory, each only if it exists, and is idempotent: a call made when
\* nothing exists releases nothing and changes nothing.
C16_DestroyOrderedIdempotent ==
    /\ [](destroyCalls >= 1 =>
            /\ \A h \in Handles : ~storageHandles[h]
            /\ released \in { << >>, <<"view">>, <<"image">>, <<"memory">>,
                              <<"view", "image">>, <<"view", "memory">>,
                              <<"image", "memory">>, <<"view", "image", "memory">> })
    /\ [][destroyCalls' = destroyCalls + 1 =>
            /\ { released'[i] : i \in 1..Len(released') } =
                 (IF destroyCalls = 0 THEN {} ELSE { released[i] : i \in 1..Len(released) })
                   \cup { h \in Handles : storageHandles[h] }
            /\ (\A h \in Handles : ~storageHandles[h]) =>
                 (storageHandles' = storageHandles
                    /\ released' = (IF destroyCalls = 0 THEN << >> ELSE released))]_vars

\* destroyStorageImage has run twice on the same target: the first call
\* released view, image and memory in that order, the second nothing.
C16_Witness ==
    /\ destroyCalls = 2
    /\ released = <<"view", "image", "memory">>
    /\ \A h \in Handles : ~storageHandles[h]


\* C17: whenever createStorageImage returns without error, the one-time
\* transition from UNDEFINED has completed on the GPU: the target is in the
\* GENERAL layout and nothing submitted by the creation is still pending.
C17_CreateReturnsInGeneral ==
    pc = "rz_pool" => (storageLayout = "GENERAL" /\ ~createPending)

\* What the vkQueueWaitIdle does give: nothing the creation submitted is
\* still pending when it returns.
CreateLeavesNothingPending ==
    pc = "rz_pool" => (~createPending /\ ComputeQueueIdle)


\* C18: whenever dispatch records its compute work the descriptor set it
\* binds was written with the view of the storage image that exists now;
\* ComputePipeline::recreate replaces the set after the device went idle and
\* the image was recreated, never while submitted work could read the set.
C18_DescriptorSetOnLiveView ==
    /\ pc \in {"dispatch", "d_gfx", "d_idle"} =>
         (descriptorSetView = "current" /\ storageHandles["view"])
    /\ pc = "rz_pool" => (DeviceIdle /\ storageLive /\ descriptorSetView = "stale")
    /\ pc = "rz_reset" => (DeviceIdle /\ storageLive /\ descriptorSetView = "current")

\* A dispatch is about to record after recreate rebuilt the target at a new
\* extent and replaced the descriptor set.
C18_Witness ==
    /\ pc = "dispatch" /\ storageExtent # InitialSize
    /\ descriptorSetView = "current" /\ storageHandles["view"]


\* An exception has been raised and not handled otherwise than by ending main
Raised == pc \in {"failed", "catch", "exited"}

\* createStorageImage is past its vkQueueSubmit2 with the new image neither
\* transitioned nor with a transition queued: the submission was refused.
createSubmitFailed ==
    /\ storageLive /\ storageLayout = "UNDEFINED" /\ ~createPending
    /\ pc # "cs_submit"

\* C19: a non-success result of any queue submission (the compute and the
\* graphics submission of dispatch, the layout-transition submission of
\* createStorageImage) raises a fatal error; nothing goes on as if the
\* submission had succeeded.
C19_SubmitFailureIsFatal ==
    /\ createSubmitFailed => Raised
    /\ errorSite \in {"submitCompute", "submitGfx"} => Raised

\* The two submissions of dispatch: a refused one raises.
DispatchSubmitFailureIsFatal ==
    errorSite \in {"submitCompute", "submitGfx"} => Raised


\* C20: every fatal construction or submission error raised inside main's try
\* block unwinds to the catch block, which prints the message and returns a
\* non-zero status; once the error is raised the host thread makes no further
\* acquisition, dispatch or presentation.
C20_ErrorsEndMain ==
    /\ []((errorSite # "none") <=> Raised)
    /\ [](pc = "failed" => ENABLED main_unwind)
    /\ [](pc = "catch" => ENABLED main_catch)
    /\ [](pc = "exited" => (message /\ exitStatus # 0))
    /\ [][Raised =>
            /\ Raised'
            /\ pc' # pc => (<<pc, pc'>> \in { <<"failed", "catch">>, <<"catch", "exited">> })
            /\ submitted' = submitted /\ dispatches' = dispatches
            /\ acqAttempts' = acqAttempts /\ res' = res
            /\ errorSite' = errorSite]_vars

\* main has returned its error status, with the message printed, after the
\* graphics submission of a later frame was refused.
C20_Witness ==
    /\ pc = "exited" /\ message /\ exitStatus = -1
    /\ errorSite = "submitGfx" /\ dispatches >= 1

\* ------------------------------------------------------------------- C21
\* Some object the program created still exists
SomethingLive ==
    \/ frameSemsLive
    \/ computeFinishedLive
    \/ \E h \in Handles : storageHandles[h]
    \/ chainLive
    \/ swapchainImageViews # 0

\* C21: when main has returned, by the normal path or through the catch
\* block, every object it created (storage image, memory, view, pipeline
\* objects and computeFinished_, per-slot semaphores, swapchain and its
\* views) has been released.
C21_AllReleasedOnEveryExit ==
    pc \in {"done", "exited"} => ~SomethingLive

\* On the normal path (the loop ended, main returned 0) everything has been
\* released
NormalExitReleasesAll ==
    pc = "done" => ~SomethingLive

\* An exception raised after construction leaves only the per-slot
\* semaphores behind
LoopExceptionLeaksFrameSems ==
    (pc = "exited" /\ errorSite \notin {"Window", "VulkanContext", "Swapchain",
                                         "ComputePipeline", "createSemaphore"})
        => (frameSemsLive /\ ~computeFinishedLive /\ ~chainLive
            /\ \A h \in Handles : ~storageHandles[h])

\* ------------------------------------------------------------------- C22
\* main is between the construction of its objects and the end of the loop
InFrameLoop == pc \notin {"construct", "shutdown", "done", "failed", "catch", "exited"}

\* C22: the per-slot signals and computeFinished_ exist throughout the frame
\* loop, recreation included: they come into existence only in the
\* construction before the loop and go out of existence only in the teardown
\* after it; no step of Swapchain::recreate or ComputePipeline::recreate
\* changes them.
C22_SignalsSurviveRecreate ==
    /\ [](InFrameLoop => (frameSemsLive /\ computeFinishedLive))
    /\ [][/\ (frameSemsLive' # frameSemsLive) =>
               (IF frameSemsLive' THEN pc = "construct" ELSE pc = "shutdown")
          /\ (computeFinishedLive' # computeFinishedLive) =>
               (IF computeFinishedLive' THEN pc = "construct"
                                        ELSE pc \in {"shutdown", "failed"})]_vars

\* Both recreations have run and the signals are the ones made before the loop
C22_Witness ==
    /\ pc = "rz_reset"
    /\ destroyCalls = 0 /\ (\A h \in Handles : storageHandles[h])
    /\ chainLive
    /\ frameSemsLive /\ computeFinishedLive

\* ------------------------------------------------------------------- C23
\* The mathematical ceiling of e / 16
ceilDiv16(e) == (e + 15) \div 16

\* C23: for every extent of the word's range, each workgroup count is the
\* ceiling of the extent over 16: count * 16 >= extent > (count - 1) * 16.
C23_WorkgroupsCoverExtent ==
    (callee = "dispatch_workgroups" /\ returned) =>
        \A i \in 1..2 : /\ result[i] * 16 >= args[i]
                        /\ args[i] > (result[i] - 1) * 16

\* The counts are the ceiling wherever extent + 15 does not wrap
WorkgroupsCoverUnwrappedExtent ==
    (callee = "dispatch_workgroups" /\ returned) =>
        \A i \in 1..2 : args[i] + 15 < Word => result[i] = ceilDiv16(args[i])

\* 1920 x 1080 gives 120 x 68 workgroups
WorkgroupsFor1920x1080 ==
    (callee = "dispatch_workgroups" /\ returned /\ args = <<1920, 1080>>) =>
        result = <<120, 68>>

\* ------------------------------------------------------------------- C24
\* C24: in the compute command buffer of every dispatch call, a push of the
\* call's payload (pan x, pan y, zoom, elapsed time) is recorded before the
\* dispatch command.
C24_PayloadPushedBeforeDispatch ==
    \A i \in 1..Len(cmdCompute) :
        cmdCompute[i] = "vkCmdDispatch" =>
            \E j \in 1..(i - 1) : cmdCompute[j] = "vkCmdPushConstants"

\* The dispatch command is recorded right after the two binds
DispatchFollowsBinds ==
    cmdCompute # <<>> =>
        /\ cmdCompute[1] = "vkCmdBindPipeline"
        /\ cmdCompute[2] = "vkCmdBindDescriptorSets"
        /\ cmdCompute[3] = "vkCmdDispatch"

\* ------------------------------------------------------------------- C25
\* C25: once dispatch has made its compute submission, the call goes on to the
\* graphics submission and returns with the compute write and the blit
\* executed (or leaves by the exception of a refused submission); between the
\* two submissions nothing else happens on the host.
C25_DispatchReturns ==
    /\ (pc = "d_gfx") ~>
          \/ pc = "failed"
          \/ pc = "present" /\ Has("computeWrite") /\ Has("blit") /\ Has("barriersEnd")
    /\ [][pc = "d_gfx" => pc' \in {"d_gfx", "d_idle", "failed"}]_vars

\* A dispatch has returned with its work executed
C25_Witness ==
    pc = "present" /\ dispatches > 0 /\ Has("computeWrite") /\ Has("blit")

\* dispatch is between its compute submission and the caller's next step
InDispatchCall == pc \in {"d_gfx", "d_idle", "present"}

\* ------------------------------------------------------------------- C26
\* C26: the presentable image of a frame goes from UNDEFINED to TRANSFER_DST
\* to PRESENT_SRC and through no other layout, the blit writes it while it is
\* TRANSFER_DST, the transition to PRESENT_SRC comes after the blit, and
\* whenever the dispatch has signaled the caller's ready signal the image is
\* PRESENT_SRC and holds the blitted contents.
C26_PresentableImageLayouts ==
    /\ [](InDispatchCall /\ Has("signalRenderDone") =>
            (swapLayout = dstToPresent.newLayout /\ Has("blit")))
    /\ [][/\ (swapLayout' # swapLayout) =>
               \/ swapLayout' = "UNDEFINED"
               \/ /\ swapLayout = "UNDEFINED" /\ swapLayout' = "TRANSFER_DST"
                  /\ ~Has("blit")
               \/ /\ swapLayout = "TRANSFER_DST" /\ swapLayout' = "PRESENT_SRC"
                  /\ Has("blit")
          /\ (~Has("blit") /\ Has("blit")') => swapLayout = "TRANSFER_DST"]_vars

\* The ready signal has been signaled for a blitted, present-ready image
C26_Witness ==
    /\ signalSem # NoSem
    /\ renderFinished[signalSem] = "signaled"
    /\ swapLayout = "PRESENT_SRC" /\ Has("blit")

\* ------------------------------------------------------------------- C27
\* C27: with a null waitSemaphore the compute submission waits on nothing (its
\* shader may run at once); with a null signalSemaphore the graphics
\* submission signals none of the caller's semaphores; for every combination
\* the compute submission signals computeFinished_ and the graphics submission
\* waits on it before its blit; and a signalSemaphore that is given is
\* signaled by the time dispatch returns, only after all graphics work.
C27_OptionalSemaphores ==
    /\ (InDispatchCall /\ waitSem = NoSem) =>
          /\ ~Has("waitAcquire")
          /\ ~Has("computeWrite") => ENABLED gpu_computeWrite
    /\ (InDispatchCall /\ signalSem = NoSem) =>
          /\ ~Has("signalRenderDone")
          /\ \A i \in Slots : renderFinished[i] = "unsignaled"
    /\ Has("blit") => (Has("waitComputeDone") /\ Has("signalComputeDone"))
    /\ pc = "present" => (Has("signalComputeDone") /\ Has("waitComputeDone"))
    /\ Has("signalRenderDone") =>
          {"waitComputeDone", "presentToDst", "blit", "barriersEnd"} \subseteq done
    /\ (pc = "present" /\ signalSem # NoSem) =>
          (Has("signalRenderDone") /\ renderFinished[signalSem] = "signaled")

\* dispatch has returned from a call with both semaphores null
C27_Witness ==
    /\ pc = "present" /\ waitSem = NoSem /\ signalSem = NoSem
    /\ Has("blit") /\ Has("waitComputeDone")

\* ------------------------------------------------------------------- C28
\* C28: chooseSwapExtent returns the reported current extent when it is
\* defined; otherwise each component of the result is the framebuffer's
\* component brought into [minImageExtent, maxImageExtent]; in both cases the
\* result lies within the reported limits.
C28_ExtentSelection ==
    (callee = "chooseSwapExtent" /\ returned) =>
        LET caps == args.capabilities
            size == args.framebuffer
        IN  /\ caps.currentExtent # UndefinedExtent => result = caps.currentExtent
            /\ caps.currentExtent = UndefinedExtent =>
                  \A i \in 1..2 :
                      /\ size[i] < caps.minImageExtent[i] =>
                            result[i] = caps.minImageExtent[i]
                      /\ size[i] > caps.maxImageExtent[i] =>
                            result[i] = caps.maxImageExtent[i]
                      /\ (caps.minImageExtent[i] <= size[i]
                            /\ size[i] <= caps.maxImageExtent[i]) => result[i] = size[i]
            /\ Within(result, caps.minImageExtent, caps.maxImageExtent)

\* The current extent was undefined and the framebuffer lay above the upper
\* limit in one component and below the lower limit in the other
C28_Witness ==
    /\ callee = "chooseSwapExtent" /\ returned
    /\ args.capabilities.currentExtent = UndefinedExtent
    /\ args.framebuffer[1] > args.capabilities.maxImageExtent[1]
    /\ args.framebuffer[2] < args.capabilities.minImageExtent[2]
    /\ result = <<args.capabilities.maxImageExtent[1], args.capabilities.minImageExtent[2]>>

\* ------------------------------------------------------------------- C29
\* The preferred surface format
PreferredFormat == [format |-> "B8G8R8A8_SRGB", colorSpace |-> "SRGB_NONLINEAR_KHR"]

\* C29: for every non-empty list of offered formats, chooseSwapSurfaceFormat
\* returns the preferred entry if the list holds it at any position, and the
\* first entry otherwise.
C29_FormatSelection ==
    (callee = "chooseSwapSurfaceFormat" /\ returned) =>
        IF \E i \in 1..Len(args) : args[i] = PreferredFormat
        THEN result = PreferredFormat
        ELSE result = args[1]

\* The preferred entry was offered last, after an entry sharing its format
C29_Witness ==
    /\ callee = "chooseSwapSurfaceFormat" /\ returned
    /\ Len(args) = MaxList
    /\ args[1].format = PreferredFormat.format /\ args[1] # PreferredFormat
    /\ args[Len(args)] = PreferredFormat
    /\ result = PreferredFormat

\* ------------------------------------------------------------------- C30
\* C30: for every list of offered modes, chooseSwapPresentMode returns the
\* mailbox mode exactly when the list holds it, wherever it stands, and the
\* FIFO mode otherwise.
C30_PresentModeSelection ==
    (callee = "chooseSwapPresentMode" /\ returned) =>
        /\ result = "MAILBOX_KHR" <=> (\E i \in 1..Len(args) : args[i] = "MAILBOX_KHR")
        /\ result # "MAILBOX_KHR" => result = "FIFO_KHR"

\* Mailbox was offered last, after other modes, and was chosen
C30_Witness ==
    /\ callee = "chooseSwapPresentMode" /\ returned
    /\ Len(args) = MaxList
    /\ args[1] = "IMMEDIATE_KHR" /\ args[Len(args)] = "MAILBOX_KHR"
    /\ result = "MAILBOX_KHR"

\* ------------------------------------------------------------------- C31
\* Bit k of mask x is set
bit(x, k) == (x \div (2 ^ k)) % 2 = 1

\* Memory type i exists, is allowed by the image's mask and has every
\* requested property flag
Fits(i) ==
    /\ i < Len(args.memoryTypes)
    /\ bit(args.typeBits, i)
    /\ \A k \in 0..1 : bit(args.props, k) => bit(args.memoryTypes[i + 1], k)

\* C31: findMemoryType returns the lowest index whose bit is set in the type
\* mask and whose property flags include every requested flag, and throws
\* exactly when no index fits; so with the device-local flag requested it
\* throws when no device-local type fits.
C31_MemoryTypeSelection ==
    (callee = "findMemoryType" /\ returned) =>
        /\ result.threw <=> ~(\E i \in 0..MaxTypes : Fits(i))
        /\ ~result.threw =>
              /\ Fits(result.index)
              /\ \A j \in 0..(result.index - 1) : ~Fits(j)

\* The first type was allowed but lacked a requested flag, a later one fitted
C31_Witness ==
    /\ callee = "findMemoryType" /\ returned
    /\ args.props = 3
    /\ Len(args.memoryTypes) = MaxTypes
    /\ bit(args.typeBits, 0) /\ args.memoryTypes[1] = 1
    /\ ~result.threw /\ result.index = MaxTypes - 1

\* ------------------------------------------------------ the steady frame loop
\* The frame loop on a surface whose chain has LoopImages images and whose
\* window is not resized: LoopFrames iterations of acquire, dispatch, present
InitLoop ==
    /\ MainInit
    /\ minImageCount = LoopImages - 1
    /\ callee = "none"
    /\ args = <<>>
    /\ result = <<>>
    /\ returned = FALSE

NextLoop ==
    \/ main_construct
    \/ loop_pollEvents
    \/ acquireNextImage
    \/ acquireNextImage_retry
    \/ OsInput
    \/ recreate_getFramebufferSize
    \/ recreate_waitEvents
    \/ recreate_vkDeviceWaitIdle
    \/ recreate_cleanup
    \/ recreate_rebuild
    \/ dispatch_submitCompute
    \/ dispatch_submitGfx
    \/ dispatch_waitIdle
    \/ present
    \/ main_nextFrame
    \/ engine_signalImageAvailable
    \/ engine_presentWait
    \/ gpu_waitAcquire
    \/ gpu_computeWrite
    \/ gpu_storageToSrc
    \/ gpu_lateStorageToSrc
    \/ gpu_signalComputeDone
    \/ gpu_waitComputeDone
    \/ gpu_presentToDst
    \/ gpu_blit
    \/ gpu_barriersEnd
    \/ gpu_signalRenderDone

SpecLoop == InitLoop /\ [][NextLoop]_vars

\* ------------------------------------------------------------------- C32
\* The graphics batch signals its renderFinished semaphore
SignalsRenderFinished == ~Has("signalRenderDone") /\ Has("signalRenderDone")'

\* An acquisition hands its imageAvailable semaphore to the presentation engine
SignalsImageAvailable ==
    /\ acquireNextImage \/ acquireNextImage_retry
    /\ imageAvailable'[currentFrame] = "pending"

\* C32: in the frame loop no renderFinished or imageAvailable semaphore is
\* signaled again while a previous signal of it is unconsumed: when the graphics
\* batch signals renderFinished[k] the presentation wait on its previous signal
\* has executed, and when an acquisition takes imageAvailable[k] the compute
\* batch has consumed its previous signal.
C32_NoSignalWhileUnconsumed ==
    [][/\ SignalsRenderFinished => renderFinished[signalSem] = "unsignaled"
       /\ SignalsImageAvailable => imageAvailable[currentFrame] = "unsignaled"]_vars

\* The imageAvailable half alone
ImageAvailableConsumedBeforeReuse ==
    [][SignalsImageAvailable => imageAvailable[currentFrame] = "unsignaled"]_vars

\* A slot comes round again while the presentation wait of its previous frame
\* is still outstanding
SlotReusedWithPresentOutstanding ==
    /\ pc = "d_gfx"
    /\ \E i \in DOMAIN presentQueue : presentQueue[i].slot = currentFrame

\* ------------------------------------------------------------------- C33
\* The loop is between its acquisition and the end of its presentation
InIteration == pc \in {"dispatch", "d_gfx", "d_idle", "present"}

\* C33: the slot index is always in 0..2 and changes only at the end of a
\* completed iteration, by one modulo 3; within one iteration the acquisition
\* takes imageAvailable of the current slot, dispatch is given the pair of the
\* current slot and the acquired image index, and present queues the acquired
\* image with renderFinished of the current slot.
C33_SlotDiscipline ==
    /\ [](currentFrame \in 0 .. 2)
    /\ [](InDispatchCall =>
            /\ waitSem = currentFrame /\ signalSem = currentFrame
            /\ dstImage = imageIndex)
    /\ [][/\ main_nextFrame => currentFrame' = (currentFrame + 1) % 3
          /\ currentFrame' # currentFrame => main_nextFrame
          /\ InIteration => (currentFrame' = currentFrame /\ imageIndex' = imageIndex)
          /\ (acquireNextImage \/ acquireNextImage_retry) =>
                \A k \in Slots \ {currentFrame} : imageAvailable'[k] = imageAvailable[k]
          /\ (present /\ presentQueue' # presentQueue) =>
                presentQueue'[Len(presentQueue')] =
                    [slot |-> currentFrame, image |-> dstImage]]_vars

\* The slot index has wrapped round to slot 0 and the fourth iteration has
\* dispatched with the pair of slot 0 and the image it acquired
C33_Witness ==
    /\ frames = MAX_FRAMES /\ currentFrame = 0
    /\ pc = "present" /\ signalSem = 0 /\ dstImage = imageIndex
    /\ imageAvailable[0] = "unsignaled"

\* ------------------------------------------------------------------- C34
\* A step destroys the chain, a handle of the Offscreen Target or the
\* semaphore of the Frame Scheduler
ReleasesGpuObject ==
    \/ chainLive /\ ~chainLive'
    \/ \E h \in Handles : storageHandles[h] /\ ~storageHandles'[h]
    \/ computeFinishedLive /\ ~computeFinishedLive'

\* C34: no GPU object is destroyed while submitted work may still be
\* executing, on any exit path: every step that destroys the chain, the
\* Offscreen Target or the Frame Scheduler's semaphore, the unwinding after a
\* failed submission, acquisition or present included, is taken with the
\* device idle.
C34_NoDestroyWhileExecuting ==
    [][ReleasesGpuObject => DeviceIdle]_vars

\* The same, for the normal exit and the recreations alone
DestroyOnNormalPathsWhenIdle ==
    [][(ReleasesGpuObject /\ pc # "failed") => DeviceIdle]_vars

\* ------------------------------------------------------------------- C35
\* C35: when the resize flag is set after pollEvents the loop takes the resize
\* path: the chain is recreated, then the Frame Scheduler is recreated on the
\* new chain, then the flag is cleared, and only then does the acquisition
\* start; the flag is set only by the framebuffer-resize callback (run for a
\* queued size event) and cleared only by resetResizeFlag; so the acquisition
\* of an iteration never starts with the flag set.
C35_ResizeHandledBeforeAcquire ==
    /\ [](pc = "acquire" => ~framebufferResized)
    /\ [](pc \in {"rz_compute", "rz_reset"} => chainLive)
    /\ [][/\ (pc = "loop" /\ pc' # "loop" /\ framebufferResized') =>
                pc' \in {"rz_idle", "shutdown"}
          /\ (pc = "rz_idle" /\ pc' # pc) => (pc' = "rc_size" /\ rcRet' = "resize")
          /\ (pc' = "rz_compute" /\ pc # pc') =>
                (pc = "rc_create" /\ rcRet = "resize" /\ ~chainLive /\ chainLive')
          /\ (pc = "rz_compute" /\ pc' # pc) =>
                \A h \in Handles : ~storageHandles'[h]
          /\ (pc' = "rz_reset" /\ pc # pc') =>
                (storageLive' /\ storageExtent' = swapchainExtent')
          /\ (pc = "rz_reset" /\ pc' # pc) =>
                (pc' = "acquire" /\ ~framebufferResized')
          /\ (pc' = "acquire" /\ pc # pc') => pc \in {"loop", "rz_reset"}
          /\ (~framebufferResized /\ framebufferResized') =>
                (pendingResize /\ ~pendingResize' /\ pc \in {"loop", "rc_wait"})
          /\ (framebufferResized /\ ~framebufferResized') => pc = "rz_reset"]_vars

\* The flag was set by a size event, the chain and the Frame Scheduler's target
\* have been recreated at the new size and the flag has just been cleared
C35_Witness ==
    /\ pc = "acquire" /\ ~framebufferResized /\ resizes > 0
    /\ chainLive /\ storageLive
    /\ swapchainExtent # InitialSize /\ storageExtent = swapchainExtent

\* ------------------------------------------------------------------- C36
\* No element occurs twice in the sequence
NoDuplicates(seq) ==
    \A i \in DOMAIN seq, j \in DOMAIN seq : i # j => seq[i] # seq[j]

\* The Offscreen Target and the descriptor pool a host operation is about to
\* use exist and have not been released
TargetAndPoolUsable ==
    /\ storageLive
    /\ descriptorPool.handle /\ descriptorPool.releases = 0
    /\ descriptorSetView = "current"

\* C36: over every sequence of createStorageImage, destroyStorageImage and
\* ComputePipeline::recreate followed by the destructor, a create step failing
\* part-way included, no view, image or memory is released twice, the
\* descriptor pool is released at most once, and the operations that use the
\* handles (the layout transition of a creation, the descriptor write, a
\* dispatch) find them unreleased.
C36_HandlesReleasedOnce ==
    /\ NoDuplicates(released)
    /\ descriptorPool.releases <= 1
    /\ pc \in {"cs_submit", "cs_wait", "rz_pool"} => storageLive
    /\ pc \in {"rz_reset", "dispatch", "d_gfx", "d_idle"} => TargetAndPoolUsable

\* recreate released the old target and the old pool, vkCreateDescriptorPool
\* then failed, and the destructor has run: each handle was released once
C36_Witness ==
    /\ pc = "catch" /\ errorSite = "createDescriptorPool"
    /\ descriptorPool = [handle |-> FALSE, releases |-> 1]
    /\ released = <<"view", "image", "memory">>
    /\ \A h \in Handles : ~storageHandles[h]

\* ------------------------------------------------------------------- C37
\* The position of call c in the sequence (0 when it is not in it)
IndexOf(seq, c) ==
    IF \E i \in DOMAIN seq : seq[i] = c
    THEN CHOOSE i \in DOMAIN seq : seq[i] = c /\ \A j \in 1 .. (i - 1) : seq[j] # c
    ELSE 0

\* How often call c is in the sequence
CountOf(seq, c) == Cardinality({i \in DOMAIN seq : seq[i] = c})

\* c is not in the sequence, or comes before d
Before(seq, c, d) ==
    IndexOf(seq, c) # 0 => (IndexOf(seq, d) # 0 /\ IndexOf(seq, c) < IndexOf(seq, d))

\* C37: at the normal exit of main the device-idle wait comes first, then the
\* per-slot semaphores, the Frame Scheduler and the chain are destroyed, all
\* before the device; in every shutdown of a Device Context the command pools
\* are destroyed before the device and the surface once, after the device and
\* before the instance; and a shutdown repeated on the same context makes no
\* destroy call.
C37_TeardownOrder ==
    (returned /\ callee \in {"VulkanContext_shutdown", "main_teardown"}) =>
        LET first == result.calls[1]
        IN  /\ callee = "main_teardown" =>
                 /\ first[1] = "vkDeviceWaitIdle"
                 /\ \A c \in {"vkDestroySemaphore(per-slot)", "~ComputePipeline", "~Swapchain"} :
                        /\ CountOf(first, c) = 1
                        /\ Before(first, "vkDeviceWaitIdle", c)
                        /\ Before(first, c, "vkDestroyDevice")
                 /\ CountOf(first, "vkDestroyDevice") = 1
                 /\ CountOf(first, "vkDestroySurfaceKHR") = 1
            /\ \A c \in {"vkDestroyCommandPool(graphicsCmdPool)",
                           "vkDestroyCommandPool(computeCmdPool)"} :
                   /\ CountOf(first, c) <= 1
                   /\ Before(first, c, "vkDestroyDevice")
            /\ CountOf(first, "vkDestroySurfaceKHR") = (IF args["surface"] /\ args["instance"] THEN 1 ELSE 0)
            /\ IndexOf(first, "vkDestroyDevice") # 0 =>
                   IndexOf(first, "vkDestroyDevice") < IndexOf(first, "vkDestroySurfaceKHR")
            /\ Before(first, "vkDestroySurfaceKHR", "vkDestroyInstance")
            /\ \A k \in 2 .. Len(result.calls) : result.calls[k] = << >>

\* main has left its try block normally and its context has been shut down
\* a second time
C37_Witness ==
    /\ returned /\ callee = "main_teardown"
    /\ Len(result.calls) = 2
    /\ result.calls[1] =
          <<"vkDeviceWaitIdle", "vkDestroySemaphore(per-slot)", "~ComputePipeline",
            "~Swapchain", "vkDestroyCommandPool(graphicsCmdPool)",
            "vkDestroyCommandPool(computeCmdPool)", "vkDestroyDevice",
            "vkDestroySurfaceKHR", "vkDestroyInstance", "~Window">>
    /\ result.calls[2] = << >>

====
